---- MODULE Spec2Model ----
(***************************************************************************)
(* Risk and capital-protection engine of the trading bots.                 *)
(*                                                                         *)
(*   CapitalProtector  (src/capital_protector.py): ledger, protection      *)
(*       mode, protected entry (sizing) and the per-tick ladder.           *)
(*   LeverageManager   (src/crypto_bot/leverage_manager.py)                *)
(*   CryptoRiskManager (src/crypto_bot/crypto_risk.py) and                 *)
(*   CryptoHunterBot.execute_trade (src/crypto_bot/crypto_hunter.py)       *)
(*   OptimalStrategy   (src/optimal_strategy.py, optimal_strategy_v2.py)   *)
(*                                                                         *)
(* Numbers are fixed point, exact on the input grids used below:           *)
(*   money (capital, P&L)      whole currency units                        *)
(*   prices                    1/1000 of a currency unit                   *)
(*   fractions (0.01 = 1%)     basis points, 1/10000                       *)
(*   risk multiplier           tenths                                      *)
(*   quantities                1/100 of a unit (CapitalProtector)          *)
(***************************************************************************)
EXTENDS Integers, Sequences, FiniteSets, TLC

VARIABLES
    \* ---- CapitalProtector: ledger ----
    current_capital, high_watermark, daily_pnl, weekly_pnl, trades_today,
    consecutive_losses, mode,
    \* ---- CapitalProtector: the position of one symbol in active_trades ----
    trade,
    \* the value returned by the last update_trade call
    result,
    \* ---- history ----
    last_op,        \* name of the last operation that ran
    sizing,         \* inputs of the last calculate_protected_entry call
    max_capital,    \* largest value current_capital has had
    \* ---- LeverageManager ----
    leveraged_positions, daily_leveraged_trades,
    \* ---- CryptoRiskManager ----
    risk_daily_pnl, risk_daily_trades, risk_consecutive_losses,
    cooling,        \* last_loss_time is set and less than the cooldown ago
    positions,      \* per symbol: the info stored in CryptoRiskManager.positions
                    \* (held: the key is present) and whether the broker
                    \* lists a position (open)
    \* ---- CryptoHunterBot ----
    bot_trades_today, leveraged_trades_today,
    decision,       \* the last call of can_use_leverage: what it was asked
                    \* (signal, counters, protection mode) and its result
    order,          \* what the last execute_trade call did
    \* ---- OptimalStrategy ----
    scored,         \* the value returned by the last calculate_unified_score
    \* ---- the three position sizers called on their own ----
    sized,          \* the last sizing request and what the sizer returned
    \* ---- RiskManager (swing): one symbol of trailing_stops ----
    swing,
    \* ---- TradingEngineV2 / CryptoHunterBot: one run of the cycle ----
    engine,
    \* ---- bot threads sizing against one account ----
    sizing_race,
    \* ---- two update_trade calls on one position ----
    tick_race

protector_vars == <<current_capital, high_watermark, daily_pnl, weekly_pnl,
                    trades_today, consecutive_losses, mode, trade, result,
                    last_op, sizing, max_capital>>

crypto_vars == <<leveraged_positions, daily_leveraged_trades, risk_daily_pnl,
                 risk_daily_trades, risk_consecutive_losses, cooling,
                 positions, bot_trades_today, leveraged_trades_today,
                 decision, order>>

other_vars == <<sized, swing, engine, sizing_race, tick_race>>

vars == <<protector_vars, crypto_vars, scored, other_vars>>

----------------------------------------------------------------------------
(* Scales *)

BP == 100 * 100       \* basis points in 1

Min(a, b) == IF a < b THEN a ELSE b
Max(a, b) == IF a > b THEN a ELSE b
Abs(a) == IF a < 0 THEN -a ELSE a

----------------------------------------------------------------------------
(* CapitalProtector.__init__ *)

initial_capital == 1000
max_loss_per_trade == 100      \* 0.01
break_even_trigger == 150      \* 0.015
trailing_trigger == 250        \* 0.025
trailing_distance == 120       \* 0.012
tp1_pct == 300                 \* tp_levels[0]['pct'] = 0.03
tp2_pct == 500                 \* tp_levels[1]['pct'] = 0.05
tp3_pct == 800                 \* tp_levels[2]['pct'] = 0.08
break_even_buffer == 10        \* entry * 1.001 / entry * 0.999

\* thresholds of update_daily_pnl
lockdown_loss == 800           \* 0.08
defensive_loss == 500          \* 0.05
cautious_loss == 300           \* 0.03
pause_losses == 5              \* can_trade: 5 consecutive losses

Modes == {"NORMAL", "CAUTIOUS", "DEFENSIVE", "LOCKDOWN"}

NoTrade == [side |-> "none"]
NoResult == [action |-> "none", reason |-> "", actions |-> <<>>, pnl_pct |-> 0]

----------------------------------------------------------------------------
(* Inputs and bounds *)

\* current_capital is explored within initial_capital +/- MaxSwing
MaxSwing == 90
\* the P&L amounts booked by update_daily_pnl: in the ledger specification,
\* and between the positions of the protector specification
PnlInputs == {-50, -30, 30}
EntryPnlInputs == {-30}
\* entry prices (100.000 and 50.000)
EntryPrices == {100000, 50000}
\* atr_pct inputs, as a fraction in basis points (atr_pct * 0.01): 0, 0.5, 2.0
AtrInputs == {0, 50, 200}
Sides == {"long", "short"}
\* tick prices, in thousandths of the position's entry price
TickPermille == {990, 1000, 1010, 1015, 1020, 1025, 1030, 1040, 1050, 1080,
                 985, 975, 970, 950, 920}

\* positions built with the constructor directly: entry 100.000, with the
\* stop, the break-even level and the trailing trigger chosen by the caller
HandBuilt(side, stop_loss, break_even_level, trailing_start) ==
    [ side |-> side, entry_price |-> 100000, quantity |-> 100,
      stop_loss |-> stop_loss, break_even_level |-> break_even_level,
      trailing_start |-> trailing_start, trailing_distance |-> 120,
      tp1 |-> IF side = "long" THEN 103000 ELSE 97000,
      tp2 |-> IF side = "long" THEN 105000 ELSE 95000,
      tp3 |-> IF side = "long" THEN 108000 ELSE 92000,
      highest_price |-> 0, lowest_price |-> 0, current_stop |-> 0,
      tp1_hit |-> FALSE, tp2_hit |-> FALSE, at_break_even |-> FALSE,
      trailing_active |-> FALSE ]

LadderInputs ==
    { HandBuilt("long", sl, be, 102500) : sl \in {98000, 100500},
                                          be \in {101500, 104000} }
    \cup { HandBuilt("short", sl, be, 97500) : sl \in {102000, 99500},
                                              be \in {98500, 96000} }

----------------------------------------------------------------------------
(* CapitalProtector._get_risk_multiplier, in tenths *)

\* mutant: the loss reduction is applied on top of the mode factor
_get_risk_multiplier_stacked(m, losses) ==
    LET base == IF m = "LOCKDOWN" THEN 0 ELSE IF m = "DEFENSIVE" THEN 3
                ELSE IF m = "CAUTIOUS" THEN 6 ELSE 10
    IN  IF losses >= 3 THEN (base * 5) \div 10
        ELSE IF losses >= 2 THEN (base * 7) \div 10
        ELSE base

\* mutant: LOCKDOWN still allows a tenth of the risk
_get_risk_multiplier_leaky(m, losses) ==
    IF m = "LOCKDOWN" THEN 1
    ELSE IF m = "DEFENSIVE" THEN 3
    ELSE IF m = "CAUTIOUS" THEN 6
    ELSE IF losses >= 3 THEN 5
    ELSE IF losses >= 2 THEN 7
    ELSE 10

_get_risk_multiplier(m, losses) ==
    IF m = "LOCKDOWN" THEN 0
    ELSE IF m = "DEFENSIVE" THEN 3
    ELSE IF m = "CAUTIOUS" THEN 6
    ELSE IF losses >= 3 THEN 5
    ELSE IF losses >= 2 THEN 7
    ELSE 10

(* calculate_protected_entry, line 139:
   stop_distance = min(atr_pct * 0.01, max_loss_per_trade) * risk_mult   (bp) *)
entry_stop_distance(atr, risk_mult) ==
    (Min(atr, max_loss_per_trade) * risk_mult) \div 10

(* CapitalProtector.calculate_protected_entry: the ProtectedTrade it returns
   (ProtectedTrade.__post_init__ included).  atr is atr_pct * 0.01 in bp.   *)
calculate_protected_entry(entry_price, direction, atr, capital, m, losses) ==
    LET risk_mult == _get_risk_multiplier(m, losses)
        stop_distance == entry_stop_distance(atr, risk_mult)
        long == direction = "long"
        Up(pct) == (entry_price * (BP + pct)) \div BP
        Down(pct) == (entry_price * (BP - pct)) \div BP
        stop_loss == IF long THEN Down(stop_distance) ELSE Up(stop_distance)
        \* capital * max_loss_per_trade * risk_mult                 (cents)
        max_risk == (capital * risk_mult) \div 10
        \* max_risk / stop_distance if stop_distance > 0 else 0     (cents)
        position_value == IF stop_distance > 0
                          THEN (max_risk * BP) \div stop_distance ELSE 0
        \* position_value / entry_price if entry_price > 0 else 0   (1/100)
        quantity == IF entry_price > 0
                    THEN (position_value * 1000) \div entry_price ELSE 0
    IN  [ side |-> direction,
          entry_price |-> entry_price,
          quantity |-> quantity,
          stop_loss |-> stop_loss,
          break_even_level |-> IF long THEN Up(break_even_trigger)
                                        ELSE Down(break_even_trigger),
          trailing_start |-> IF long THEN Up(trailing_trigger)
                                      ELSE Down(trailing_trigger),
          trailing_distance |-> trailing_distance,
          tp1 |-> IF long THEN Up(tp1_pct) ELSE Down(tp1_pct),
          tp2 |-> IF long THEN Up(tp2_pct) ELSE Down(tp2_pct),
          tp3 |-> IF long THEN Up(tp3_pct) ELSE Down(tp3_pct),
          highest_price |-> entry_price,
          lowest_price |-> entry_price,
          current_stop |-> stop_loss,
          tp1_hit |-> FALSE,
          tp2_hit |-> FALSE,
          at_break_even |-> FALSE,
          trailing_active |-> FALSE ]

(* ProtectedTrade: the dataclass constructor on a full set of fields f,
   then __post_init__ (lines 61-64)                                        *)
ProtectedTrade(f) ==
    [f EXCEPT !.highest_price = f.entry_price,
              !.lowest_price = f.entry_price,
              !.current_stop = f.stop_loss]

----------------------------------------------------------------------------
(* CapitalProtector.update_trade on the position t at current_price:
   the position after the call and the value returned.                     *)

\* mutant: the trailing stop is assigned without the comparison
trail_raises_unchecked(new_stop, current_stop) == TRUE

\* line 274: if new_stop > trade.current_stop
trail_raises(new_stop, current_stop) == new_stop > current_stop
\* line 323: if new_stop < trade.current_stop
trail_lowers(new_stop, current_stop) == new_stop < current_stop

\* one entry of the returned 'actions' list
LadderAction(action, reason, percent, new_stop) ==
    [action |-> action, reason |-> reason, percent |-> percent,
     new_stop |-> new_stop]

\* {'action': 'HOLD' | 'MULTIPLE', ..., 'pnl_pct': ...} (lines 331-334)
tick_result(actions, pnl_pct) ==
    [action |-> IF actions # <<>> THEN "MULTIPLE" ELSE "HOLD", reason |-> "",
     actions |-> actions, pnl_pct |-> pnl_pct]

\* mutant: the actions collected before the exit are returned with it
exit_all_with_actions(reason, actions, pnl_pct) ==
    [action |-> "EXIT_ALL", reason |-> reason, actions |-> actions,
     pnl_pct |-> pnl_pct]

\* return {'action': 'EXIT_ALL', 'reason': ..., 'pnl_pct': ...}: the actions
\* collected so far are dropped (lines 228-232, 254-258, 287-291, 303-307)
exit_all(reason, actions, pnl_pct) ==
    [action |-> "EXIT_ALL", reason |-> reason, actions |-> <<>>,
     pnl_pct |-> pnl_pct]

\* the division by trade.entry_price raised (lines 224, 283)
ZeroDivisionError ==
    [action |-> "ZeroDivisionError", reason |-> "", actions |-> <<>>,
     pnl_pct |-> 0]

\* mutant: the break-even rule does not look at its flag
break_even_due_long_unflagged(t, current_price) ==
    current_price >= t.break_even_level

\* line 261 / line 310
break_even_due_long(t, current_price) ==
    ~t.at_break_even /\ current_price >= t.break_even_level
break_even_due_short(t, current_price) ==
    ~t.at_break_even /\ current_price <= t.break_even_level

\* line 263: entry_price * 1.001;  line 312: entry_price * 0.999
break_even_stop_long(entry_price) ==
    (entry_price * (BP + break_even_buffer)) \div BP
break_even_stop_short(entry_price) ==
    (entry_price * (BP - break_even_buffer)) \div BP

\* mutant: the trailing stop follows at twice the distance
trail_candidate_long_loose(current_price, distance) ==
    (current_price * (BP - 2 * distance)) \div BP

\* line 273: current_price * (1 - trailing_distance);  line 322: (1 + ...)
trail_candidate_long(current_price, distance) ==
    (current_price * (BP - distance)) \div BP
trail_candidate_short(current_price, distance) ==
    (current_price * (BP + distance)) \div BP

update_trade_long(t0, current_price) ==
    LET \* profit_pct * 100, in basis points of 1 (line 224)
        pnl_pct == ((current_price - t0.entry_price) * BP) \div t0.entry_price
        \* 2. / 3. TP1, TP2: flags set before the TP3 test
        hit1 == ~t0.tp1_hit /\ current_price >= t0.tp1
        hit2 == ~t0.tp2_hit /\ current_price >= t0.tp2
        t1 == [t0 EXCEPT !.tp1_hit = t0.tp1_hit \/ hit1,
                         !.tp2_hit = t0.tp2_hit \/ hit2]
        a1 == (IF hit1 THEN <<LadderAction("PARTIAL_EXIT", "TP1", 30, 0)>>
                       ELSE <<>>)
              \o (IF hit2 THEN <<LadderAction("PARTIAL_EXIT", "TP2", 30, 0)>>
                          ELSE <<>>)
        \* 5. move to break-even
        be == break_even_due_long(t1, current_price)
        t2 == IF be
              THEN [t1 EXCEPT !.at_break_even = TRUE,
                              !.current_stop =
                                  break_even_stop_long(t1.entry_price)]
              ELSE t1
        a2 == a1 \o (IF be THEN <<LadderAction("MOVE_STOP", "BREAK_EVEN", 0,
                                               t2.current_stop)>>
                           ELSE <<>>)
        \* 6. trailing stop
        trail == current_price >= t2.trailing_start
        new_stop == trail_candidate_long(current_price, t2.trailing_distance)
        raise == trail /\ trail_raises(new_stop, t2.current_stop)
        t3 == [t2 EXCEPT !.trailing_active = t2.trailing_active \/ trail,
                         !.current_stop = IF raise THEN new_stop ELSE @]
        a3 == a2 \o (IF raise THEN <<LadderAction("TRAIL_STOP", "TRAILING", 0,
                                                  new_stop)>>
                              ELSE <<>>)
    IN  IF t0.entry_price = 0
        THEN [trade |-> t0, result |-> ZeroDivisionError]
        \* 1. stop loss
        ELSE IF current_price <= t0.current_stop
        THEN [trade |-> t0, result |-> exit_all("STOP", <<>>, pnl_pct)]
        \* 4. TP3
        ELSE IF current_price >= t1.tp3
        THEN [trade |-> t1, result |-> exit_all("TP3", a1, pnl_pct)]
        ELSE [trade |-> t3, result |-> tick_result(a3, pnl_pct)]

update_trade_short(t0, current_price) ==
    LET \* line 283
        pnl_pct == ((t0.entry_price - current_price) * BP) \div t0.entry_price
        \* TP1 only: the short branch has no TP2 step
        hit1 == ~t0.tp1_hit /\ current_price <= t0.tp1
        t1 == [t0 EXCEPT !.tp1_hit = t0.tp1_hit \/ hit1]
        a1 == IF hit1 THEN <<LadderAction("PARTIAL_EXIT", "TP1", 30, 0)>>
                      ELSE <<>>
        be == break_even_due_short(t1, current_price)
        t2 == IF be
              THEN [t1 EXCEPT !.at_break_even = TRUE,
                              !.current_stop =
                                  break_even_stop_short(t1.entry_price)]
              ELSE t1
        a2 == a1 \o (IF be THEN <<LadderAction("MOVE_STOP", "BREAK_EVEN", 0,
                                               t2.current_stop)>>
                           ELSE <<>>)
        trail == current_price <= t2.trailing_start
        new_stop == trail_candidate_short(current_price, t2.trailing_distance)
        lower == trail /\ trail_lowers(new_stop, t2.current_stop)
        t3 == [t2 EXCEPT !.trailing_active = t2.trailing_active \/ trail,
                         !.current_stop = IF lower THEN new_stop ELSE @]
        a3 == a2 \o (IF lower THEN <<LadderAction("TRAIL_STOP", "TRAILING", 0,
                                                  new_stop)>>
                              ELSE <<>>)
    IN  IF t0.entry_price = 0
        THEN [trade |-> t0, result |-> ZeroDivisionError]
        ELSE IF current_price >= t0.current_stop
        THEN [trade |-> t0, result |-> exit_all("STOP", <<>>, pnl_pct)]
        ELSE IF current_price <= t1.tp3
        THEN [trade |-> t1, result |-> exit_all("TP3", a1, pnl_pct)]
        ELSE [trade |-> t3, result |-> tick_result(a3, pnl_pct)]

update_trade(t, current_price) ==
    LET \* highest / lowest are updated before anything else
        t0 == [t EXCEPT !.highest_price = Max(@, current_price),
                        !.lowest_price = Min(@, current_price)]
    IN  IF t.side = "long" THEN update_trade_long(t0, current_price)
                           ELSE update_trade_short(t0, current_price)

----------------------------------------------------------------------------
(* CapitalProtector.update_daily_pnl, lines 351-362: the mode for a daily P&L *)

\* abs(daily_pnl) / initial_capital if daily_pnl < 0 else 0               (bp)
daily_loss_pct(pnl_day) ==
    IF pnl_day < 0 THEN (Abs(pnl_day) * BP) \div initial_capital ELSE 0

\* mutant: the thresholds are exclusive
mode_for_exclusive(pnl_day) ==
    IF daily_loss_pct(pnl_day) > lockdown_loss THEN "LOCKDOWN"
    ELSE IF daily_loss_pct(pnl_day) > defensive_loss THEN "DEFENSIVE"
    ELSE IF daily_loss_pct(pnl_day) > cautious_loss THEN "CAUTIOUS"
    ELSE "NORMAL"

mode_for(pnl_day) ==
    IF daily_loss_pct(pnl_day) >= lockdown_loss THEN "LOCKDOWN"
    ELSE IF daily_loss_pct(pnl_day) >= defensive_loss THEN "DEFENSIVE"
    ELSE IF daily_loss_pct(pnl_day) >= cautious_loss THEN "CAUTIOUS"
    ELSE "NORMAL"

\* consecutive_losses after booking pnl (lines 376-379)
losses_after(losses, pnl) == IF pnl < 0 THEN losses + 1 ELSE 0

\* mutant: the watermark follows the capital down as well
watermark_tracks_capital(hwm, capital) == capital

\* high_watermark after current_capital changed (lines 347-348)
watermark_after(hwm, capital) == IF capital > hwm THEN capital ELSE hwm

\* mutant: reset_daily clears every mode
mode_after_reset_daily_cleared(m) == "NORMAL"

\* mode after reset_daily (lines 408-409)
mode_after_reset_daily(m) == IF m # "LOCKDOWN" THEN "NORMAL" ELSE m

\* mode after reset_weekly (line 415)
mode_after_reset_weekly(m) == "NORMAL"

(* CapitalProtector.can_trade *)
can_trade(m, losses) ==
    IF m = "LOCKDOWN" THEN [can_trade |-> FALSE, reason |-> "LOCKDOWN"]
    ELSE IF losses >= pause_losses
    THEN [can_trade |-> FALSE, reason |-> "CONSECUTIVE_LOSSES"]
    ELSE [can_trade |-> TRUE, reason |-> ""]

(* CapitalProtector.get_stats: drawdown_pct, in basis points of 1 *)
drawdown(hwm, capital) ==
    IF hwm > 0 THEN ((hwm - capital) * BP) \div hwm ELSE 0

----------------------------------------------------------------------------
(* LeverageManager (src/crypto_bot/leverage_manager.py)

   confidence: percent;  score: points out of 12;  risk_reward: hundredths;
   stop_loss_pct: hundredths of a percent (200 = 2.0 %);  multipliers: tenths;
   stop multipliers: hundredths;  adjusted_stop_loss: 1/10000 of a percent. *)

min_confidence == 75
low_confidence == 80
medium_confidence == 85
high_confidence == 90
extreme_confidence == 95
min_score == 8
min_risk_reward == 200
max_leveraged_positions == 3
max_daily_leveraged == 10

Levels == {"NONE", "LOW", "MEDIUM", "HIGH", "EXTREME"}

\* LeverageLevel values, in tenths
level_multiplier(level) ==
    CASE level = "NONE" -> 10
      [] level = "LOW" -> 15
      [] level = "MEDIUM" -> 20
      [] level = "HIGH" -> 30
      [] level = "EXTREME" -> 50

\* mutant: the stop is left as the strategy set it, whatever the level
stop_multipliers_untightened(level) == 100

\* LeverageManager.stop_multipliers, in hundredths
stop_multipliers(level) ==
    CASE level = "NONE" -> 100
      [] level = "LOW" -> 75
      [] level = "MEDIUM" -> 60
      [] level = "HIGH" -> 45
      [] level = "EXTREME" -> 30

\* mutant: the number of open leveraged positions is not checked
leverage_gates_uncounted(signal, open_count, daily) ==
    /\ ~(signal.confidence < min_confidence)
    /\ ~(signal.score < min_score)
    /\ ~(signal.risk_reward < min_risk_reward)
    /\ ~(daily >= max_daily_leveraged)

\* checks 1, 2, 3 and 5 of can_use_leverage (lines 114-159)
leverage_gates(signal, open_count, daily) ==
    /\ ~(signal.confidence < min_confidence)
    /\ ~(signal.score < min_score)
    /\ ~(signal.risk_reward < min_risk_reward)
    /\ ~(open_count >= max_leveraged_positions)
    /\ ~(daily >= max_daily_leveraged)

\* mutant: the score alone picks the top level
leverage_level_by_score(signal, can_leverage) ==
    IF ~can_leverage THEN "NONE"
    ELSE IF signal.score >= 11 THEN "EXTREME"
    ELSE IF signal.score >= 10 THEN "HIGH"
    ELSE IF signal.score >= 9 THEN "MEDIUM"
    ELSE IF signal.score >= 8 THEN "LOW"
    ELSE "NONE"

\* the level chosen by can_use_leverage (lines 164-186)
leverage_level(signal, can_leverage) ==
    IF ~can_leverage THEN "NONE"
    ELSE IF signal.confidence >= extreme_confidence /\ signal.score >= 11
    THEN "EXTREME"
    ELSE IF signal.confidence >= high_confidence /\ signal.score >= 10
    THEN "HIGH"
    ELSE IF signal.confidence >= medium_confidence /\ signal.score >= 9
    THEN "MEDIUM"
    ELSE IF signal.confidence >= low_confidence /\ signal.score >= 8
    THEN "LOW"
    ELSE "NONE"

(* LeverageManager.can_use_leverage: the LeverageDecision returned, given the
   manager's leveraged_positions and daily_leveraged_trades                 *)
can_use_leverage(signal, open_count, daily) ==
    LET can_leverage == leverage_gates(signal, open_count, daily)
        level == leverage_level(signal, can_leverage)
        multiplier == level_multiplier(level)
    IN  [ can_leverage |-> can_leverage /\ multiplier > 10,
          multiplier |-> multiplier,
          level |-> level,
          adjusted_stop_loss |-> signal.stop_loss_pct * stop_multipliers(level) ]

NoDecision ==
    [can_leverage |-> FALSE, multiplier |-> 10, level |-> "NONE",
     adjusted_stop_loss |-> 0]

----------------------------------------------------------------------------
(* CryptoRiskManager (src/crypto_bot/crypto_risk.py)

   portfolio value, cash: currency units;  position values: cents;
   prices: currency units;  quantities: 1/10000 of a unit.                  *)

risk_per_trade == 150          \* 0.015
max_daily_risk == 800          \* 0.08
max_positions == 5
max_exposure == 8000           \* 0.80
min_cash == 1500               \* 0.15
max_consecutive_losses == 5
sizing_min_confidence == 55

allowed_cryptos == {"BTC/USD", "ETH/USD", "SOL/USD"}

\* CryptoRiskManager.max_per_crypto, in basis points
max_per_crypto(symbol) ==
    CASE symbol = "BTC/USD" -> 5000
      [] symbol = "ETH/USD" -> 4500
      [] symbol = "SOL/USD" -> 3000
      [] OTHER -> 2000

\* safe_divide of crypto_risk.py on scaled integers: n * scale / d, or the default
safe_divide(n, scale, d, default) ==
    IF d = 0 THEN default ELSE (n * scale) \div d

\* round(x, k) of n / d, as a count of 10^-k units
round_div(n, d) == (2 * n + d) \div (2 * d)

(* CryptoRiskManager.can_trade(symbol, signal_confidence), on the account and
   positions the broker reports (snap) and the manager's counters           *)
risk_can_trade(symbol, confidence, snap, losses, cool, pnl_day) ==
    LET pv == snap.portfolio_value
        refuse(why) == [can_trade |-> FALSE, reason |-> why,
                        max_position_value |-> 0]
        max_position == (pv * max_per_crypto(symbol)) \div 100
        boosted == IF confidence >= 85 THEN (max_position * 12) \div 10
                                       ELSE max_position
        remaining == (max_exposure * pv) \div 100 - snap.total_exposure
    IN  IF symbol \notin allowed_cryptos THEN refuse("NOT_ALLOWED")
        ELSE IF losses >= max_consecutive_losses THEN refuse("LOSS_PAUSE")
        ELSE IF cool THEN refuse("COOLDOWN")
        ELSE IF pv <= 0 THEN refuse("ACCOUNT")
        ELSE IF safe_divide(-pnl_day, BP, pv, 0) >= max_daily_risk
        THEN refuse("DAILY_LOSS")
        ELSE IF safe_divide(snap.cash, BP, pv, 5000) < min_cash
        THEN refuse("CASH")
        ELSE IF snap.n_positions >= max_positions THEN refuse("MAX_POSITIONS")
        ELSE IF snap.held THEN refuse("ALREADY_IN_POSITION")
        ELSE IF safe_divide(snap.total_exposure, 100, pv, 0) >= max_exposure
        THEN refuse("MAX_EXPOSURE")
        ELSE IF confidence < sizing_min_confidence THEN refuse("CONFIDENCE")
        ELSE [can_trade |-> TRUE, reason |-> "OK",
              max_position_value |-> Min(boosted, remaining)]

\* risk_amount of calculate_position_size (lines 229-235), in cents
risk_amount(pv, confidence) ==
    LET base == (pv * risk_per_trade) \div 100
    IN  IF confidence >= 90 THEN (base * 15) \div 10
        ELSE IF confidence >= 80 THEN (base * 12) \div 10
        ELSE base

(* CryptoRiskManager.calculate_position_size *)
calculate_position_size(symbol, price, stop_loss, confidence, snap, losses, cool, pnl_day) ==
    LET check == risk_can_trade(symbol, confidence, snap, losses, cool, pnl_day)
        stop_distance == Abs(price - stop_loss)
        \* risk_amount / stop_pct, stop_pct = stop_distance / price  (cents)
        raw_value == IF stop_distance > 0
                     THEN IF price = 0 THEN 0
                          ELSE (risk_amount(snap.portfolio_value, confidence) * price)
                                   \div stop_distance
                     ELSE risk_amount(snap.portfolio_value, confidence) * 10
        position_value == Min(raw_value, check.max_position_value)
        \* qty = round(position_value / price, digits), in 1/10000
        qty == IF price = 0 THEN 0
               ELSE IF symbol = "BTC/USD" THEN round_div(position_value * 100, price)
               ELSE IF symbol = "ETH/USD"
               THEN round_div(position_value * 10, price) * 10
               ELSE round_div(position_value, price) * 100
        min_qty == IF symbol = "BTC/USD" THEN 1
                   ELSE IF symbol = "ETH/USD" THEN 10 ELSE 100
    IN  IF ~check.can_trade
        THEN [can_trade |-> FALSE, qty |-> 0, reason |-> check.reason]
        ELSE IF qty < min_qty
        THEN [can_trade |-> FALSE, qty |-> 0, reason |-> "TOO_SMALL"]
        ELSE [can_trade |-> TRUE, qty |-> qty, reason |-> "OK"]

----------------------------------------------------------------------------
(* CryptoStrategy.generate_signal and CryptoHunterBot.scan_moonshots: the BUY
   signals the scan hands to the leverage manager and to execute_trade      *)

\* CryptoStrategy.stop_loss_pct / take_profit_pct, in basis points
strategy_stop_pct(symbol) ==
    CASE symbol = "BTC/USD" -> 200
      [] symbol = "ETH/USD" -> 250
      [] symbol = "SOL/USD" -> 350
      [] OTHER -> 300

strategy_take_profit_pct(symbol) ==
    CASE symbol = "BTC/USD" -> 450
      [] symbol = "ETH/USD" -> 600
      [] symbol = "SOL/USD" -> 750
      [] OTHER -> 600

\* generate_signal, BUY branch; wide is atr_pct > 4
generate_signal(symbol, close, wide, confidence, score) ==
    LET stop_pct == IF wide THEN (strategy_stop_pct(symbol) * 13) \div 10
                            ELSE strategy_stop_pct(symbol)
        tp_pct == IF wide THEN (strategy_take_profit_pct(symbol) * 13) \div 10
                          ELSE strategy_take_profit_pct(symbol)
    IN  [ symbol |-> symbol, entry_price |-> close,
          stop_loss |-> close - (close * stop_pct) \div BP,
          confidence |-> confidence, score |-> score,
          stop_loss_pct |-> stop_pct,
          risk_reward |-> safe_divide(tp_pct, 100, stop_pct, 200) ]

\* scan_moonshots: no stop_loss_pct and no risk_reward key, so
\* can_use_leverage reads its defaults (2 and 0)
moonshot_signal(symbol, close) ==
    [ symbol |-> symbol, entry_price |-> close,
      stop_loss |-> (close * 98) \div 100,
      confidence |-> 95, score |-> 12,
      stop_loss_pct |-> 200, risk_reward |-> 0 ]

----------------------------------------------------------------------------
(* CryptoHunterBot.execute_trade (src/crypto_bot/crypto_hunter.py)

   final quantity: 1/100000 of a unit;  stop distances: cents.              *)

NoOrder ==
    [ attempted |-> FALSE, symbol |-> "", equity |-> 0, entry_price |-> 0,
      can_trade |-> FALSE, reason |-> "", sized_qty |-> 0, qty |-> 0,
      leverage |-> 10, signal_stop_distance |-> 0, stop_distance |-> 0,
      submitted |-> FALSE ]

NoSignal ==
    [ symbol |-> "", entry_price |-> 0, stop_loss |-> 0, confidence |-> 0,
      score |-> 0, stop_loss_pct |-> 0, risk_reward |-> 0 ]

\* no signal has been put to the leverage manager yet
NotAsked ==
    [ asked |-> FALSE, signal |-> NoSignal, open_count |-> 0,
      daily_count |-> 0, mode |-> "NORMAL", result |-> NoDecision ]

NoPosition ==
    [held |-> FALSE, open |-> FALSE, entry |-> 0, stop_loss |-> 0, leverage |-> 10]

\* lines 346-376: sizing, then leverage on the quantity and on the stop
prepare_order(signal, d, snap, losses, cool, pnl_day) ==
    LET position == calculate_position_size(signal.symbol, signal.entry_price,
                        signal.stop_loss, signal.confidence, snap,
                        losses, cool, pnl_day)
        leverage == IF d.can_leverage THEN d.multiplier ELSE 10
        signal_distance == Abs(signal.entry_price - signal.stop_loss) * 100
        \* stop_loss = entry_price * (1 - adjusted_stop_loss / 100)
        distance == IF d.can_leverage
                    THEN (signal.entry_price * d.adjusted_stop_loss) \div BP
                    ELSE signal_distance
    IN  [ attempted |-> TRUE, symbol |-> signal.symbol,
          equity |-> snap.portfolio_value,
          entry_price |-> signal.entry_price,
          can_trade |-> position.can_trade, reason |-> position.reason,
          sized_qty |-> position.qty,
          qty |-> IF position.can_trade THEN position.qty * leverage ELSE 0,
          leverage |-> leverage,
          signal_stop_distance |-> signal_distance,
          stop_distance |-> distance,
          submitted |-> FALSE ]

----------------------------------------------------------------------------
(* OptimalStrategy (src/optimal_strategy.py)

   scores: points;  leverage, hold multiplier: tenths;  stops: basis points;
   bb_position: hundredths;  volume_ratio: tenths.                          *)

\* thresholds
min_trade == 55
confident_trade == 70
strong_trade == 80
exceptional_trade == 90

\* leverage_matrix: (score_min, score_max) -> leverage, in insertion order
leverage_matrix ==
    << <<90, 100, 50>>, <<80, 90, 30>>, <<70, 80, 20>>, <<60, 70, 15>>,
       <<55, 60, 10>>, <<0, 55, 0>> >>

\* hold_matrix: (market_score_min, market_score_max) -> hold multiplier
hold_matrix ==
    << <<80, 100, 25>>, <<70, 80, 20>>, <<60, 70, 15>>, <<50, 60, 10>>,
       <<0, 50, 6>> >>

\* the loop "for (min_s, max_s), v in matrix.items(): if min_s <= x < max_s":
\* the value of the first band that holds x, or the default
RECURSIVE band_lookup(_, _, _, _)
band_lookup(matrix, x, i, default) ==
    IF i > Len(matrix) THEN default
    ELSE IF matrix[i][1] <= x /\ x < matrix[i][2] THEN matrix[i][3]
    ELSE band_lookup(matrix, x, i + 1, default)

\* stop_matrix.get(leverage, 0.025)
stop_matrix(leverage) ==
    CASE leverage = 50 -> 60
      [] leverage = 30 -> 100
      [] leverage = 20 -> 150
      [] leverage = 15 -> 200
      [] leverage = 10 -> 250
      [] OTHER -> 250

score_market_intel(m) ==
    LET fg == IF 25 <= m.fg /\ m.fg <= 55 THEN 12
              ELSE IF 55 < m.fg /\ m.fg <= 70 THEN 8
              ELSE IF m.fg > 70 THEN 2
              ELSE IF 15 < m.fg /\ m.fg < 25 THEN 10
              ELSE 0
        vix == IF 12 <= m.vix /\ m.vix <= 20 THEN 10
               ELSE IF 20 < m.vix /\ m.vix <= 25 THEN 6
               ELSE IF m.vix > 30 THEN 0
               ELSE 8
        mc == IF m.mc_change > 3 THEN 8
              ELSE IF m.mc_change > 0 THEN 5
              ELSE IF m.mc_change > -3 THEN 3
              ELSE 0
    IN  Min(30, fg + vix + mc)

score_technical(ind) ==
    LET rsi == IF 35 <= ind.rsi /\ ind.rsi <= 55 THEN 10
               ELSE IF 55 < ind.rsi /\ ind.rsi < 70 THEN 6
               ELSE IF ind.rsi <= 30 THEN 8
               ELSE 2
        macd == IF ind.macd > ind.macd_signal /\ ind.macd_hist > 0 THEN 8
                ELSE IF ind.macd > ind.macd_signal THEN 5
                ELSE 2
        ema == IF ind.close > ind.ema_9 /\ ind.ema_9 > ind.ema_21
                  /\ ind.ema_21 > ind.ema_55 THEN 8
               ELSE IF ind.close > ind.ema_21 /\ ind.ema_21 > ind.ema_55 THEN 5
               ELSE IF ind.close > ind.ema_55 THEN 3
               ELSE 0
        adx == IF ind.adx >= 40 THEN 8
               ELSE IF ind.adx >= 25 THEN 6
               ELSE IF ind.adx >= 20 THEN 4
               ELSE 1
        bb == IF 20 <= ind.bb_position /\ ind.bb_position <= 40 THEN 6
              ELSE IF 40 < ind.bb_position /\ ind.bb_position <= 60 THEN 4
              ELSE IF ind.bb_position > 85 THEN 1
              ELSE 3
    IN  Min(40, rsi + macd + ema + adx + bb)

score_volume_momentum(ind) ==
    LET vol == IF ind.volume_ratio >= 20 THEN 8
               ELSE IF ind.volume_ratio >= 15 THEN 6
               ELSE IF ind.volume_ratio >= 12 THEN 4
               ELSE IF ind.volume_ratio >= 8 THEN 2
               ELSE 0
        mom == IF ind.momentum > 5 THEN 7
               ELSE IF ind.momentum > 2 THEN 5
               ELSE IF ind.momentum > 0 THEN 3
               ELSE 1
    IN  Min(15, vol + mom)

score_confirmation(m, ind) ==
    LET One(b) == IF b THEN 1 ELSE 0
        confirmations ==
            One((m.fg < 50 /\ ind.rsi < 50) \/ (m.fg > 50 /\ ind.rsi > 50))
            + One(ind.adx > 25 /\ ind.volume_ratio > 12)
            + One(ind.close > ind.ema_21 /\ ind.macd_hist > 0)
            + One(m.mc_change > 0 /\ ind.momentum > 0)
            + One(m.vix < 22 /\ ind.momentum > 0)
    IN  Min(15, confirmations * 3)

\* the action chosen from the thresholds (lines 392-407)
unified_action(total_score) ==
    IF total_score >= exceptional_trade THEN "STRONG_BUY"
    ELSE IF total_score >= strong_trade THEN "BUY"
    ELSE IF total_score >= confident_trade THEN "BUY"
    ELSE IF total_score >= min_trade THEN "BUY"
    ELSE "HOLD"

(* OptimalStrategy.calculate_unified_score *)
calculate_unified_score(m, ind) ==
    LET market_score == score_market_intel(m)
        tech_score == score_technical(ind)
        volume_score == score_volume_momentum(ind)
        confirm_score == score_confirmation(m, ind)
        total_score == market_score + tech_score + volume_score + confirm_score
        leverage == band_lookup(leverage_matrix, total_score, 1, 0)
        hold_mult == band_lookup(hold_matrix, m.score, 1, 10)
        stop_loss == stop_matrix(leverage)
    IN  [ version |-> 1, total_score |-> total_score,
          action |-> unified_action(total_score),
          market_intel |-> market_score, technical |-> tech_score,
          volume |-> volume_score, confirmation |-> confirm_score,
          leverage |-> leverage, hold_multiplier |-> hold_mult,
          stop_loss_pct |-> stop_loss,
          \* stop_loss * 3 * hold_mult, in tenths of a basis point
          take_profit_pct |-> stop_loss * 3 * hold_mult,
          calendar_blocked |-> FALSE ]

----------------------------------------------------------------------------
(* OptimalStrategyV2 (src/optimal_strategy_v2.py)

   same scales as OptimalStrategy;  cmf value: hundredths.                  *)

exceptional_v2 == 85
strong_v2 == 75
confident_v2 == 65
acceptable_v2 == 55
min_trade_v2 == 45

leverage_matrix_v2 ==
    << <<85, 101, 50>>, <<75, 85, 30>>, <<65, 75, 20>>, <<55, 65, 15>>,
       <<45, 55, 10>>, <<0, 45, 0>> >>

hold_matrix_v2 ==
    << <<85, 101, 25>>, <<75, 85, 20>>, <<65, 75, 15>>, <<55, 65, 10>>,
       <<0, 55, 7>> >>

\* 'S1' in position or 'S2' in position, over the positions the pivot
\* calculation returns
on_pivot_support(position) ==
    position \in {"ABOVE_S1", "ABOVE_S2", "BELOW_S2"}

\* mutant: the market component is capped but has no floor
score_market_intel_v2_unfloored(m) ==
    LET fg == IF 25 <= m.fg /\ m.fg <= 55 THEN 12
              ELSE IF 55 < m.fg /\ m.fg <= 70 THEN 8
              ELSE IF m.fg > 80 THEN 2
              ELSE IF 15 < m.fg /\ m.fg < 25 THEN 10
              ELSE 0
        vix == IF m.vix <= 18 THEN 8
               ELSE IF m.vix <= 22 THEN 6
               ELSE IF m.vix <= 28 THEN 3
               ELSE 0
        dxy == IF m.dxy_signal = "BULLISH" THEN 5
               ELSE IF m.dxy_signal = "NEUTRAL" THEN 3
               ELSE 0
        mc == IF m.mc_change > 3 THEN 5
              ELSE IF m.mc_change > 0 THEN 3
              ELSE IF m.mc_change > -3 THEN 1
              ELSE 0
        calendar == IF m.block_trading THEN -35 ELSE 5
    IN  Min(35, fg + vix + dxy + mc + calendar)

score_market_intel_v2(m) ==
    LET fg == IF 25 <= m.fg /\ m.fg <= 55 THEN 12
              ELSE IF 55 < m.fg /\ m.fg <= 70 THEN 8
              ELSE IF m.fg > 80 THEN 2
              ELSE IF 15 < m.fg /\ m.fg < 25 THEN 10
              ELSE 0
        vix == IF m.vix <= 18 THEN 8
               ELSE IF m.vix <= 22 THEN 6
               ELSE IF m.vix <= 28 THEN 3
               ELSE 0
        dxy == IF m.dxy_signal = "BULLISH" THEN 5
               ELSE IF m.dxy_signal = "NEUTRAL" THEN 3
               ELSE 0
        mc == IF m.mc_change > 3 THEN 5
              ELSE IF m.mc_change > 0 THEN 3
              ELSE IF m.mc_change > -3 THEN 1
              ELSE 0
        calendar == IF m.block_trading THEN -35 ELSE 5
    IN  Max(0, Min(35, fg + vix + dxy + mc + calendar))

score_technical_v2(ind, adv) ==
    LET ema == IF ind.close > ind.ema_9 /\ ind.ema_9 > ind.ema_21
                  /\ ind.ema_21 > ind.ema_55 THEN 6
               ELSE IF ind.close > ind.ema_21 /\ ind.ema_21 > ind.ema_55 THEN 4
               ELSE IF ind.close > ind.ema_55 THEN 2
               ELSE 0
        ichimoku ==
            IF adv.ichimoku.valid
            THEN (IF adv.ichimoku.cloud_signal = "BULLISH" THEN 4
                  ELSE IF adv.ichimoku.cloud_signal = "NEUTRAL" THEN 2 ELSE 0)
                 + (IF adv.ichimoku.tk_cross = "BULLISH" THEN 2 ELSE 0)
            ELSE 0
        rsi == IF 30 <= ind.rsi /\ ind.rsi <= 45 THEN 5
               ELSE IF 45 < ind.rsi /\ ind.rsi < 60 THEN 4
               ELSE IF ind.rsi < 30 THEN 3
               ELSE IF ind.rsi > 70 THEN 1
               ELSE 0
        macd == IF ind.macd_hist > 0 THEN 3
                ELSE IF ind.macd_hist > ind.macd_hist_prev THEN 2
                ELSE 0
        fib == IF adv.fibonacci.valid
               THEN IF adv.fibonacci.near_support
                       /\ adv.fibonacci.position_pct < 50 THEN 5
                    ELSE IF adv.fibonacci.position_pct < 40 THEN 3
                    ELSE 0
               ELSE 0
        pivots == IF adv.pivots.valid
                  THEN IF on_pivot_support(adv.pivots.position) THEN 5
                       ELSE IF adv.pivots.position = "ABOVE_PIVOT" THEN 3
                       ELSE 0
                  ELSE 0
        adx == IF ind.adx >= 35 THEN 8
               ELSE IF ind.adx >= 25 THEN 6
               ELSE IF ind.adx >= 20 THEN 4
               ELSE 0
    IN  Max(0, Min(40, ema + ichimoku + rsi + macd + fib + pivots + adx))

score_volume_flow(ind, adv) ==
    LET vol == IF ind.volume_ratio >= 20 THEN 5
               ELSE IF ind.volume_ratio >= 15 THEN 4
               ELSE IF ind.volume_ratio >= 12 THEN 3
               ELSE IF ind.volume_ratio >= 8 THEN 1
               ELSE 0
        mfi == IF adv.mfi.valid
               THEN IF 20 <= adv.mfi.value /\ adv.mfi.value <= 40 THEN 5
                    ELSE IF adv.mfi.value < 20 THEN 4
                    ELSE IF 40 < adv.mfi.value /\ adv.mfi.value < 60 THEN 3
                    ELSE IF adv.mfi.value > 80 THEN 1
                    ELSE 0
               ELSE 0
        cmf == IF adv.cmf.valid
               THEN IF adv.cmf.value > 20 THEN 5
                    ELSE IF adv.cmf.value > 10 THEN 4
                    ELSE IF adv.cmf.value > 0 THEN 3
                    ELSE IF adv.cmf.value > -10 THEN 1
                    ELSE 0
               ELSE 0
    IN  Max(0, Min(15, vol + mfi + cmf))

score_confirmations(m, ind, adv) ==
    LET One(b) == IF b THEN 1 ELSE 0
        confirmations ==
            One((m.fg < 50 /\ ind.rsi < 50) \/ (m.fg > 50 /\ ind.rsi > 50))
            + One(adv.ichimoku.cloud_signal = "BULLISH"
                  /\ ind.close > ind.ema_21)
            + One(ind.volume_ratio > 12 /\ ind.adx > 25)
            + One(adv.mfi.valid /\ adv.cmf.valid
                  /\ adv.mfi.value < 60 /\ adv.cmf.value > 0)
            + One(adv.fibonacci.near_support
                  \/ on_pivot_support(adv.pivots.position))
    IN  Max(0, Min(10, confirmations * 2))

unified_action_v2(total_score) ==
    IF total_score >= exceptional_v2 THEN "STRONG_BUY"
    ELSE IF total_score >= strong_v2 THEN "BUY"
    ELSE IF total_score >= confident_v2 THEN "BUY"
    ELSE IF total_score >= acceptable_v2 THEN "BUY"
    ELSE IF total_score >= min_trade_v2 THEN "BUY"
    ELSE "HOLD"

(* OptimalStrategyV2.calculate_unified_score; adv is what
   calculate_all_advanced returned, every part invalid when there is no df  *)
calculate_unified_score_v2(m, ind, adv) ==
    LET market_score == score_market_intel_v2(m)
        tech_score == score_technical_v2(ind, adv)
        volume_score == score_volume_flow(ind, adv)
        confirm_score == score_confirmations(m, ind, adv)
        total_score == Max(0, Min(100, market_score + tech_score
                                       + volume_score + confirm_score))
        leverage == band_lookup(leverage_matrix_v2, total_score, 1, 0)
        hold_mult == band_lookup(hold_matrix_v2, total_score, 1, 10)
        stop_loss == stop_matrix(leverage)
    IN  [ version |-> 2, total_score |-> total_score,
          action |-> unified_action_v2(total_score),
          market_intel |-> market_score, technical |-> tech_score,
          volume |-> volume_score, confirmation |-> confirm_score,
          leverage |-> leverage, hold_multiplier |-> hold_mult,
          stop_loss_pct |-> stop_loss,
          take_profit_pct |-> stop_loss * 3 * hold_mult,
          \* the market reasons hold the line "Event eco: ..." (line 197)
          calendar_blocked |-> m.block_trading ]

----------------------------------------------------------------------------
(* The sizers of the scalping bot (src/scalping_bot/scalping_risk.py) and of
   the swing bot (src/risk_manager.py)

   capital, portfolio value, buying power: whole currency units;
   prices and position values: cents;  quantities: shares;
   percentages: as in the source, volatility_pct and pnl_pct in hundredths. *)

\* int(x) of a quotient: truncation toward zero
int_div(n, d) == IF n >= 0 THEN n \div d ELSE -((-n) \div d)

\* ScalpingRiskManager.__init__
scalping_risk_per_trade_pct == 500     \* 0.5, in thousandths of a percent
scalping_max_daily_loss_pct == 200     \* 2.0
scalping_max_trades_per_day == 20
scalping_max_consecutive_losses == 5
scalping_max_position_pct == 10        \* 10.0
scalping_max_positions == 3
scalping_max_exposure_pct == 25        \* 25.0

\* ScalpingRiskManager.check_trading_allowed on today's statistics (so that
\* reset_daily_stats leaves them alone) and the open positions (their number
\* and the sum of their values)
check_trading_allowed(book) ==
    IF book.pnl_pct <= -scalping_max_daily_loss_pct THEN "DAILY_LOSS"
    ELSE IF book.trades_count >= scalping_max_trades_per_day THEN "MAX_TRADES"
    ELSE IF book.consecutive_losses >= scalping_max_consecutive_losses
    THEN "LOSS_PAUSE"
    ELSE IF book.open_positions >= scalping_max_positions THEN "MAX_POSITIONS"
    ELSE "OK"

\* ScalpingRiskManager.calculate_position_size
scalping_calculate_position_size(entry_price, stop_loss, volatility_pct, book) ==
    LET refuse(why) == [allowed |-> FALSE, reason |-> why, shares |-> 0]
        allowed == check_trading_allowed(book)
        risk_per_share == Abs(entry_price - stop_loss)
        adjusted_risk_pct ==
            IF volatility_pct > 200 THEN scalping_risk_per_trade_pct \div 2
            ELSE IF volatility_pct > 150
            THEN (scalping_risk_per_trade_pct * 3) \div 4
            ELSE scalping_risk_per_trade_pct
        risk_amt == (book.current_capital * adjusted_risk_pct) \div 1000
        by_risk == int_div(risk_amt, risk_per_share)
        max_position == book.current_capital * scalping_max_position_pct
        by_position == IF by_risk * entry_price > max_position
                       THEN int_div(max_position, entry_price)
                       ELSE by_risk
        max_total_exposure == book.current_capital * scalping_max_exposure_pct
        remaining == max_total_exposure - book.total_exposure
        shares == IF by_position * entry_price > remaining
                  THEN int_div(remaining, entry_price)
                  ELSE by_position
    IN  IF entry_price <= 0 THEN refuse("INVALID_ENTRY")
        ELSE IF stop_loss <= 0 THEN refuse("INVALID_STOP")
        ELSE IF stop_loss >= entry_price THEN refuse("STOP_NOT_BELOW_ENTRY")
        ELSE IF allowed # "OK" THEN refuse(allowed)
        ELSE IF risk_per_share <= 0 THEN refuse("ZERO_RISK")
        ELSE IF by_risk < 1 THEN refuse("TOO_SMALL")
        ELSE IF shares < 1 THEN refuse("MAX_EXPOSURE")
        ELSE [allowed |-> TRUE, reason |-> "OK", shares |-> shares]

\* RiskManager.__init__ (swing)
swing_risk_per_trade == 2              \* 0.02, in percent
swing_max_position_pct == 10           \* 0.10, in percent
swing_trailing_stop_pct == 3           \* 0.03, in percent

\* line 172
swing_position_size(size_risk, size_max, size_bp) ==
    Max(1, Min(size_risk, Min(size_max, size_bp)))

\* RiskManager.calculate_position_size: a number of shares
swing_calculate_position_size(entry_price, stop_loss, account) ==
    LET risk_amt == account.portfolio_value * swing_risk_per_trade
        risk_per_share == entry_price - stop_loss
        size_risk == int_div(risk_amt, risk_per_share)
        max_value == account.portfolio_value * swing_max_position_pct
        size_max == int_div(max_value, entry_price)
        size_bp == int_div(account.buying_power * 50, entry_price)
    IN  IF entry_price <= 0 THEN 0
        ELSE IF stop_loss <= 0 \/ stop_loss >= entry_price THEN 0
        ELSE IF risk_per_share <= 0 THEN 0
        ELSE swing_position_size(size_risk, size_max, size_bp)

(* RiskManager.update_trailing_stop(position) on the stop stored for the
   position's symbol (stored: the key is in trailing_stops); prices in cents *)
update_trailing_stop(stored, trailing_stop, entry_price, current_price) ==
    LET new_stop == (current_price * (100 - swing_trailing_stop_pct)) \div 100
        old_stop == IF stored THEN trailing_stop ELSE (entry_price * 95) \div 100
        raised == new_stop > old_stop
    IN  [ stored |-> stored \/ raised,
          trailing_stop |-> IF raised THEN new_stop ELSE trailing_stop,
          old_stop |-> old_stop,
          returned |-> IF raised /\ current_price <= new_stop
                       THEN "SELL_ALL" ELSE "None" ]

\* a swing position that update_trailing_stop has not seen
NoSwing ==
    [ entry_price |-> 0, current_price |-> 0, stored |-> FALSE,
      trailing_stop |-> 0, was_stored |-> FALSE, old_stop |-> 0,
      returned |-> "" ]

\* no sizer has been called
NoSized ==
    [ sizer |-> "none", entry_price |-> 0, stop_loss |-> 0, confidence |-> 0,
      accepted |-> FALSE, reason |-> "", quantity |-> 0,
      position_value |-> 0, cap_value |-> 0, has_room |-> FALSE,
      room_value |-> 0 ]


(* The two bot threads of main_runner.py (lines 94-101) on one broker
   account: each runs "size, then submit_order".  A thread at "submitting"
   has sized its order and not yet submitted it.                            *)
IdleThread ==
    [pc |-> "idle", limit |-> 0, value |-> 0, symbol |-> "", committed |-> FALSE, exposure_after |-> 0]

NoSizingRace ==
    [ crypto_exposure |-> 0, stock_exposure |-> 0, crypto_held |-> {},
      scalper_positions |-> 0, hunter |-> IdleThread, scalper |-> IdleThread ]

(* Two update_trade calls on the position of one symbol.  update_trade takes
   no lock: each call is a sequence of statements on the shared ProtectedTrade
   and the calls interleave between statements.  A call is at the statement
   named by pc; emitted counts the one-shot actions appended by all calls.  *)
TickThreads == {1, 2}

IdleTick == [pc |-> "idle", current_price |-> 0, new_stop |-> 0]

NoTickRace ==
    [ calls |-> 0, threads |-> [th \in TickThreads |-> IdleTick],
      emitted |-> [tp1 |-> 0, tp2 |-> 0, break_even |-> 0] ]

(* One run of the trading cycle of TradingEngineV2.run_optimized_cycle
   (src/trading_engine_v2.py) and of CryptoHunterBot.trading_cycle
   (src/crypto_bot/crypto_hunter.py).  pc is the step the cycle is at; steps
   lists the steps the current cycle has run; held is the set of symbols
   with an open position, closed_trades the risk manager's daily_trades;
   at_start is their value when the cycle began.                            *)
Bots == {"engine_v2", "hunter"}

IdleCycle ==
    [ pc |-> "idle", cycles |-> 0, steps |-> <<>>, held |-> {},
      closed_trades |-> 0, at_start |-> [held |-> {}, closed_trades |-> 0],
      timed_out |-> {}, fetched |-> {}, opportunities |-> {},
      blocked |-> FALSE, error |-> FALSE, order |-> "" ]

NoCycle == [bot \in Bots |-> IdleCycle]

\* the cycle c has run the step named step and is now at pc
cycle_step(c, step, pc) == [c EXCEPT !.steps = Append(@, step), !.pc = pc]

----------------------------------------------------------------------------
(* Inputs of the crypto bot *)

MaxTradesToday == 1        \* explored orders per day, and exits per day
MaxRecorded == 2           \* explored leveraged trades recorded
MaxLosses == 2             \* explored consecutive losing exits

TradedSymbols == {"BTC/USD", "ETH/USD"}
Confidences == {70, 80, 85, 90, 95}
Scores == {8, 9, 10, 11}
ExitPnlInputs == {-80, 40}

close_price(symbol) ==
    CASE symbol = "BTC/USD" -> 30000
      [] symbol = "ETH/USD" -> 2000
      [] OTHER -> 1000

SignalInputs ==
    { generate_signal(s, close_price(s), w, c, sc) :
          s \in TradedSymbols, w \in BOOLEAN, c \in Confidences, sc \in Scores }
    \cup { generate_signal("AVAX/USD", close_price("AVAX/USD"), FALSE, 90, 10) }
    \cup { moonshot_signal(s, close_price(s)) : s \in TradedSymbols }

\* what the broker reports: account value and cash (currency units), number
\* of open positions, whether the signal's symbol is among them, and their
\* total market value (cents)
Snapshot(pv, cash, n, held, exposure) ==
    [portfolio_value |-> pv, cash |-> cash, n_positions |-> n, held |-> held,
     total_exposure |-> exposure]

Snapshots ==
    { Snapshot(1000, 1000, 0, FALSE, 0),
      Snapshot(1000, 230, 1, FALSE, 77000),
      Snapshot(1000, 500, 1, TRUE, 50000),
      Snapshot(1000, 100, 1, FALSE, 40000),
      Snapshot(1000, 600, 5, FALSE, 40000),
      Snapshot(1000, 200, 2, FALSE, 80000),
      Snapshot(0, 0, 0, FALSE, 0) }

\* the signals and broker reports explored over many cycles
CycleSignals ==
    { generate_signal("BTC/USD", close_price("BTC/USD"), FALSE, c[1], c[2]) :
          c \in {<<70, 8>>, <<85, 9>>, <<95, 11>>} }
    \cup { generate_signal("ETH/USD", close_price("ETH/USD"), TRUE, 90, 10),
           moonshot_signal("ETH/USD", close_price("ETH/USD")) }

\* a day's loss booked on the CapitalProtector ledger
LedgerLossInputs == {-90}

CycleSnapshots ==
    { Snapshot(1000, 1000, 0, FALSE, 0),
      Snapshot(1000, 500, 1, TRUE, 50000) }

\* sizing requests: the stop as a distance below the entry, in basis points
StopFractions == {0, 200, 500}

stop_below(price, f) == price - (price * f) \div BP

SizedSymbols == {"BTC/USD", "ETH/USD", "SOL/USD"}
SizedConfidences == {70, 85, 95}

\* ScalpingRiskManager: capital, day statistics and open positions
Book(pnl_pct, trades, losses, open_positions, total_exposure) ==
    [ current_capital |-> 100000, pnl_pct |-> pnl_pct,
      trades_count |-> trades, consecutive_losses |-> losses,
      open_positions |-> open_positions, total_exposure |-> total_exposure ]

Books ==
    { Book(0, 0, 0, 0, 0), Book(0, 3, 1, 1, 2000000),
      Book(-50, 5, 2, 2, 2495000), Book(0, 4, 0, 2, 2600000),
      Book(-200, 6, 3, 0, 0), Book(0, 20, 0, 0, 0), Book(0, 7, 5, 0, 0),
      Book(0, 3, 0, 3, 1500000) }

ScalpingEntries == {10000, 2500, 2000000}
Volatilities == {100, 180, 250}

\* RiskManager: the account the broker reports
Account(portfolio_value, buying_power) ==
    [portfolio_value |-> portfolio_value, buying_power |-> buying_power]

Accounts ==
    { Account(100000, 200000), Account(100000, 1000), Account(5000, 10000),
      Account(500, 1000) }

SwingEntries == {10000, 60000, 2500}
SwingStopFractions == {0, 100, 300, 500}

\* the account both threads trade: equity in currency units
RaceEquity == 10000
MaxRaceOrders == 2         \* explored orders of each thread

RaceSignals ==
    { generate_signal(sym, close_price(sym), FALSE, c, 9) :
          sym \in SizedSymbols, c \in {70, 90} }

RaceEntries == {10000, 40000}

\* concurrent ticks: prices in thousandths of the entry price
MaxRaceTicks == 3          \* explored update_trade calls on the position
RaceTickPermille == {1015, 1030, 1040, 1050}

\* trading cycles
MaxCycles == 3             \* explored cycles of each bot
EngineSymbols == {"BTC/USD", "ETH/USD"}
MarketFetches == {"ok", "blocked", "timeout"}

\* swing positions: entry prices in cents, current prices in thousandths of
\* the entry price
SwingPositions == {10000, 20000, 50000}
SwingTickPermille == {900, 950, 980, 1000, 1020, 1050, 1080, 1100, 1150, 1200}

\* signals put to the leverage manager directly: a plain dict with the keys
\* can_use_leverage reads (risk_reward 0 is also what a missing key reads as)
MaxOpened == 3             \* explored open leveraged positions
MaxDaily == 10             \* explored leveraged trades recorded in a day

DecisionSignals ==
    { [ symbol |-> "BTC/USD", entry_price |-> close_price("BTC/USD"),
        stop_loss |-> close_price("BTC/USD")
                        - (close_price("BTC/USD") * 200) \div BP,
        confidence |-> c, score |-> sc, stop_loss_pct |-> 200,
        risk_reward |-> rr ] :
      c \in {70, 90}, sc \in {7, 10, 82}, rr \in {0, 240} }

----------------------------------------------------------------------------
(* Inputs of the scorers *)

\* empty maps: every .get(...) returns its default
EmptyMarket == [fg |-> 50, vix |-> 20, mc_change |-> 0, score |-> 50]

EmptyIndicators ==
    [ rsi |-> 50, macd |-> 0, macd_signal |-> 0, macd_hist |-> 0,
      macd_hist_prev |-> -1, close |-> 0, ema_9 |-> 0, ema_21 |-> 0,
      ema_55 |-> 0, adx |-> 20, bb_position |-> 50, volume_ratio |-> 10,
      momentum |-> 0 ]

EmptyMarketV2 ==
    [ fg |-> 50, vix |-> 20, dxy_signal |-> "NEUTRAL", mc_change |-> 0,
      block_trading |-> FALSE ]

MarketInputs ==
    [ fg : {10, 20, 30, 60, 75}, vix : {15, 23, 35}, mc_change : {5, 1, -5},
      score : {50, 100} ]
    \cup {EmptyMarket}

MacdInputs == { <<2, 1, 1>>, <<0, 0, 0>> }
EmaInputs == { <<104, 103, 102, 101>>, <<100, 103, 102, 101>> }

IndicatorInputs ==
    { [ rsi |-> r, macd |-> md[1], macd_signal |-> md[2], macd_hist |-> md[3],
        macd_hist_prev |-> -1,
        close |-> e[1], ema_9 |-> e[2], ema_21 |-> e[3], ema_55 |-> e[4],
        adx |-> a, bb_position |-> b, volume_ratio |-> v, momentum |-> mo ] :
      r \in {40, 60, 80}, md \in MacdInputs, e \in EmaInputs, a \in {45, 22},
      b \in {30, 90}, v \in {20, 10}, mo \in {6, 0} }
    \cup {EmptyIndicators}

MarketInputsV2 ==
    [ fg : {30, 60, 75}, vix : {15, 30}, dxy_signal : {"BULLISH", "BEARISH"},
      mc_change : {5, -5}, block_trading : BOOLEAN ]
    \cup {EmptyMarketV2}

IndicatorInputsV2 ==
    { i \in IndicatorInputs : i.bb_position = 30 /\ i.momentum = 0 /\ i.rsi # 80 }
    \cup {EmptyIndicators}

\* no df: calculate_all_advanced is not called and every lookup is a default
NoAdvanced ==
    [ ichimoku |-> [valid |-> FALSE, cloud_signal |-> "", tk_cross |-> ""],
      fibonacci |-> [valid |-> FALSE, near_support |-> FALSE,
                     position_pct |-> 50],
      pivots |-> [valid |-> FALSE, position |-> ""],
      mfi |-> [valid |-> FALSE, value |-> 50],
      cmf |-> [valid |-> FALSE, value |-> 0] ]

AdvancedInputs ==
    { NoAdvanced,
      [ ichimoku |-> [valid |-> TRUE, cloud_signal |-> "BULLISH",
                      tk_cross |-> "BULLISH"],
        fibonacci |-> [valid |-> TRUE, near_support |-> TRUE,
                       position_pct |-> 30],
        pivots |-> [valid |-> TRUE, position |-> "ABOVE_S1"],
        mfi |-> [valid |-> TRUE, value |-> 30],
        cmf |-> [valid |-> TRUE, value |-> 25] ],
      [ ichimoku |-> [valid |-> TRUE, cloud_signal |-> "NEUTRAL",
                      tk_cross |-> "BEARISH"],
        fibonacci |-> [valid |-> TRUE, near_support |-> FALSE,
                       position_pct |-> 35],
        pivots |-> [valid |-> TRUE, position |-> "ABOVE_PIVOT"],
        mfi |-> [valid |-> TRUE, value |-> 50],
        cmf |-> [valid |-> TRUE, value |-> 5] ] }

NoScore ==
    [ version |-> 0, total_score |-> 0, action |-> "", market_intel |-> 0,
      technical |-> 0, volume |-> 0, confirmation |-> 0, leverage |-> 0,
      hold_multiplier |-> 0, stop_loss_pct |-> 0, take_profit_pct |-> 0,
      calendar_blocked |-> FALSE ]

----------------------------------------------------------------------------
(* State after CapitalProtector.__init__(initial_capital=1000) *)

Init ==
    /\ current_capital = initial_capital
    /\ high_watermark = initial_capital
    /\ daily_pnl = 0
    /\ weekly_pnl = 0
    /\ trades_today = 0
    /\ consecutive_losses = 0
    /\ mode = "NORMAL"
    /\ trade = NoTrade
    /\ result = NoResult
    /\ last_op = "init"
    /\ sizing = [atr |-> 0, capital |-> 0, mode |-> "NORMAL", losses |-> 0]
    /\ max_capital = initial_capital
    \* LeverageManager.__init__, CryptoRiskManager.__init__,
    \* CryptoHunterBot.__init__
    /\ leveraged_positions = 0
    /\ daily_leveraged_trades = 0
    /\ risk_daily_pnl = 0
    /\ risk_daily_trades = 0
    /\ risk_consecutive_losses = 0
    /\ cooling = FALSE
    /\ positions = [s \in TradedSymbols |-> NoPosition]
    /\ bot_trades_today = 0
    /\ leveraged_trades_today = 0
    /\ decision = NotAsked
    /\ order = NoOrder
    /\ scored = NoScore
    /\ sized = NoSized
    /\ swing = NoSwing
    /\ engine = NoCycle
    /\ sizing_race = NoSizingRace
    /\ tick_race = NoTickRace

(* update_daily_pnl(pnl).  The ledger operations and update_trade touch
   disjoint state, so the ledger operations are explored between positions;
   the explored capital range is initial_capital +/- MaxSwing.             *)
UpdateDailyPnl(pnl) ==
    /\ trade = NoTrade
    /\ Abs(current_capital + pnl - initial_capital) <= MaxSwing
    /\ daily_pnl' = daily_pnl + pnl
    /\ weekly_pnl' = weekly_pnl + pnl
    /\ current_capital' = current_capital + pnl
    /\ high_watermark' = watermark_after(high_watermark, current_capital')
    /\ mode' = mode_for(daily_pnl')
    /\ consecutive_losses' = losses_after(consecutive_losses, pnl)
    /\ max_capital' = Max(max_capital, current_capital')
    /\ last_op' = "update_daily_pnl"
    /\ UNCHANGED <<trades_today, trade, result, sizing>>
    /\ UNCHANGED <<crypto_vars, scored, other_vars>>

ResetDaily ==
    /\ trade = NoTrade
    /\ daily_pnl' = 0
    /\ trades_today' = 0
    /\ mode' = mode_after_reset_daily(mode)
    /\ last_op' = "reset_daily"
    /\ UNCHANGED <<current_capital, high_watermark, weekly_pnl,
                   consecutive_losses, trade, result, sizing, max_capital>>
    /\ UNCHANGED <<crypto_vars, scored, other_vars>>

ResetWeekly ==
    /\ trade = NoTrade
    /\ weekly_pnl' = 0
    /\ mode' = mode_after_reset_weekly(mode)
    /\ last_op' = "reset_weekly"
    /\ UNCHANGED <<current_capital, high_watermark, daily_pnl, trades_today,
                   consecutive_losses, trade, result, sizing, max_capital>>
    /\ UNCHANGED <<crypto_vars, scored, other_vars>>

(* calculate_protected_entry and the caller's
   active_trades[symbol] = trade (lines 477-491)                           *)
ProtectedEntry(entry_price, direction, atr) ==
    /\ trade = NoTrade
    /\ trade' = calculate_protected_entry(entry_price, direction, atr,
                     current_capital, mode, consecutive_losses)
    /\ sizing' = [atr |-> atr, capital |-> current_capital, mode |-> mode,
                  losses |-> consecutive_losses]
    /\ result' = NoResult
    /\ last_op' = "calculate_protected_entry"
    /\ UNCHANGED <<current_capital, high_watermark, daily_pnl, weekly_pnl,
                   trades_today, consecutive_losses, mode, max_capital>>
    /\ UNCHANGED <<crypto_vars, scored, other_vars>>

(* update_trade(symbol, current_price); the price is k thousandths of the
   position's entry price                                                  *)
UpdateTrade(k) ==
    /\ IF trade = NoTrade
       THEN /\ result' = NoResult          \* symbol not in active_trades
            /\ trade' = trade
       ELSE LET current_price == (trade.entry_price * k) \div 1000
            IN  /\ trade' = update_trade(trade, current_price).trade
                /\ result' = update_trade(trade, current_price).result
    /\ last_op' = "update_trade"
    /\ UNCHANGED <<current_capital, high_watermark, daily_pnl, weekly_pnl,
                   trades_today, consecutive_losses, mode, sizing, max_capital>>
    /\ UNCHANGED <<crypto_vars, scored, other_vars>>

(* the caller drops the position from active_trades *)
CloseTrade ==
    /\ trade # NoTrade
    /\ trade' = NoTrade
    /\ result' = NoResult
    /\ last_op' = "close"
    /\ UNCHANGED <<current_capital, high_watermark, daily_pnl, weekly_pnl,
                   trades_today, consecutive_losses, mode, sizing, max_capital>>
    /\ UNCHANGED <<crypto_vars, scored, other_vars>>

(* The protector: ledger, protected entries and the ladder *)
Next ==
    \/ \E pnl \in EntryPnlInputs : UpdateDailyPnl(pnl)
    \/ ResetDaily
    \/ ResetWeekly
    \/ \E e \in EntryPrices, d \in Sides, a \in AtrInputs : ProtectedEntry(e, d, a)
    \/ \E k \in TickPermille : UpdateTrade(k)
    \/ CloseTrade

Spec == Init /\ [][Next]_vars

(* The ledger alone, with gains and losses *)
NextLedger ==
    \/ \E pnl \in PnlInputs : UpdateDailyPnl(pnl)
    \/ ResetDaily
    \/ ResetWeekly

SpecLedger == Init /\ [][NextLedger]_vars

(* active_trades[symbol] = ProtectedTrade(...): a position built by the
   caller                                                                  *)
BuildTrade(f) ==
    /\ trade = NoTrade
    /\ trade' = ProtectedTrade(f)
    /\ result' = NoResult
    /\ last_op' = "ProtectedTrade"
    /\ UNCHANGED <<current_capital, high_watermark, daily_pnl, weekly_pnl,
                   trades_today, consecutive_losses, mode, sizing, max_capital>>
    /\ UNCHANGED <<crypto_vars, scored, other_vars>>

(* the caller saves the fields of the position and builds it again from them *)
Rehydrate ==
    /\ trade # NoTrade
    /\ trade' = ProtectedTrade(trade)
    /\ last_op' = "rehydrate"
    /\ UNCHANGED <<current_capital, high_watermark, daily_pnl, weekly_pnl,
                   trades_today, consecutive_losses, mode, sizing, max_capital,
                   result>>
    /\ UNCHANGED <<crypto_vars, scored, other_vars>>

(* The ladder alone, on positions from calculate_protected_entry and on
   positions built by the caller                                           *)
NextLadder ==
    \/ \E e \in EntryPrices, d \in Sides, a \in AtrInputs : ProtectedEntry(e, d, a)
    \/ \E f \in LadderInputs : BuildTrade(f)
    \/ \E k \in TickPermille : UpdateTrade(k)
    \/ Rehydrate
    \/ CloseTrade

SpecLadder == Init /\ [][NextLadder]_vars

(* The protector on numeric edge cases: an entry price of 0, an ATR of 0 and
   every protection mode                                                   *)
EdgeEntryPrices == {0, 100000}

NextEdge ==
    \/ \E pnl \in EntryPnlInputs : UpdateDailyPnl(pnl)
    \/ \E e \in EdgeEntryPrices, d \in Sides, a \in AtrInputs :
           ProtectedEntry(e, d, a)
    \/ \E k \in TickPermille : UpdateTrade(k)
    \/ CloseTrade

SpecEdge == Init /\ [][NextEdge]_vars

----------------------------------------------------------------------------
(* The crypto bot: one trading cycle scans a signal, asks the leverage manager
   and executes the trade; exits, the cooldown clock and the daily reset     *)

\* _scan_single_symbol (lines 263-264) then execute_trade (lines 339-420);
\* ok: submit_order returns, otherwise it raises
TradingCycle(signal, snap, ok) ==
    LET d == can_use_leverage(signal, leveraged_positions, daily_leveraged_trades)
        o == prepare_order(signal, d, snap, risk_consecutive_losses, cooling,
                           risk_daily_pnl)
        opened == IF d.can_leverage THEN leveraged_positions + 1
                                    ELSE leveraged_positions
    IN  /\ bot_trades_today < MaxTradesToday
        /\ daily_leveraged_trades < MaxRecorded
        /\ decision' = [ asked |-> TRUE, signal |-> signal,
                         open_count |-> leveraged_positions,
                         daily_count |-> daily_leveraged_trades,
                         mode |-> mode, result |-> d ]
        /\ IF ~o.can_trade
           THEN /\ order' = o
                /\ UNCHANGED <<leveraged_positions, daily_leveraged_trades,
                               positions, bot_trades_today,
                               leveraged_trades_today>>
           ELSE IF ok
           THEN /\ order' = [o EXCEPT !.submitted = TRUE]
                /\ leveraged_positions' = opened
                /\ positions' = [positions EXCEPT ![signal.symbol] =
                       [held |-> TRUE, open |-> TRUE,
                        entry |-> signal.entry_price,
                        stop_loss |-> signal.entry_price * 100 - o.stop_distance,
                        leverage |-> o.leverage]]
                /\ bot_trades_today' = bot_trades_today + 1
                /\ leveraged_trades_today' =
                       IF o.leverage > 10 THEN leveraged_trades_today + 1
                                          ELSE leveraged_trades_today
                /\ UNCHANGED daily_leveraged_trades
           ELSE /\ order' = o
                \* close_leveraged_position(0)
                /\ leveraged_positions' =
                       IF o.leverage > 10 THEN Max(0, opened - 1) ELSE opened
                /\ daily_leveraged_trades' =
                       IF o.leverage > 10 THEN daily_leveraged_trades + 1
                                          ELSE daily_leveraged_trades
                /\ UNCHANGED <<positions, bot_trades_today,
                               leveraged_trades_today>>
        /\ UNCHANGED <<risk_daily_pnl, risk_daily_trades,
                       risk_consecutive_losses, cooling>>
        /\ UNCHANGED <<protector_vars, scored, other_vars>>

(* check_exits (lines 422-456) for one exit signal, with record_trade and
   close_leveraged_position.  The exit signal carries the symbol as the
   broker lists it (get_positions, crypto_risk.py line 116), the stored info
   is keyed by the signal's symbol (crypto_hunter.py line 400): plain is
   the broker listing 'BTCUSD' for 'BTC/USD', the form can_trade also
   expects (crypto_risk.py line 183); the lookup of line 434 then finds
   nothing and reads leverage 1.0.                                          *)
CheckExits(symbol, pnl, plain) ==
    LET leverage == IF plain \/ ~positions[symbol].held
                    THEN 10 ELSE positions[symbol].leverage
    IN  /\ positions[symbol].open
        /\ risk_daily_trades < MaxTradesToday
        /\ daily_leveraged_trades < MaxRecorded
        /\ risk_consecutive_losses < MaxLosses
        /\ risk_daily_pnl' = risk_daily_pnl + pnl
        /\ risk_daily_trades' = risk_daily_trades + 1
        /\ risk_consecutive_losses' =
               IF pnl < 0 THEN risk_consecutive_losses + 1 ELSE 0
        /\ cooling' = (pnl < 0)
        /\ IF leverage > 10
           THEN /\ leveraged_positions' = Max(0, leveraged_positions - 1)
                /\ daily_leveraged_trades' = daily_leveraged_trades + 1
           ELSE UNCHANGED <<leveraged_positions, daily_leveraged_trades>>
        /\ positions' = [positions EXCEPT ![symbol] =
               IF plain THEN [@ EXCEPT !.open = FALSE] ELSE NoPosition]
        /\ UNCHANGED <<bot_trades_today, leveraged_trades_today, decision,
                       order>>
        /\ UNCHANGED <<protector_vars, scored, other_vars>>

\* cooldown_after_loss minutes have passed since last_loss_time
CooldownElapsed ==
    /\ cooling
    /\ cooling' = FALSE
    /\ UNCHANGED <<leveraged_positions, daily_leveraged_trades, risk_daily_pnl,
                   risk_daily_trades, risk_consecutive_losses, positions,
                   bot_trades_today, leveraged_trades_today, decision, order>>
    /\ UNCHANGED <<protector_vars, scored, other_vars>>

\* CryptoHunterBot._daily_reset with CryptoRiskManager.reset_daily
BotDailyReset ==
    /\ risk_daily_pnl' = 0
    /\ risk_daily_trades' = 0
    /\ bot_trades_today' = 0
    /\ leveraged_trades_today' = 0
    /\ UNCHANGED <<leveraged_positions, daily_leveraged_trades,
                   risk_consecutive_losses, cooling, positions, decision,
                   order>>
    /\ UNCHANGED <<protector_vars, scored, other_vars>>

NextCrypto ==
    \/ \E signal \in CycleSignals, snap \in CycleSnapshots, ok \in BOOLEAN :
           TradingCycle(signal, snap, ok)
    \/ \E symbol \in TradedSymbols, pnl \in ExitPnlInputs, plain \in BOOLEAN :
           CheckExits(symbol, pnl, plain)
    \/ CooldownElapsed
    \/ BotDailyReset
    \/ \E pnl \in LedgerLossInputs : UpdateDailyPnl(pnl)

SpecCrypto == Init /\ [][NextCrypto]_vars

(* The scorers keep no state: one call from the initial state explores every
   input.                                                                   *)
ScoreV1(m, ind) ==
    /\ scored = NoScore
    /\ scored' = calculate_unified_score(m, ind)
    /\ UNCHANGED <<protector_vars, crypto_vars, other_vars>>

ScoreV2(m, ind, adv) ==
    /\ scored = NoScore
    /\ scored' = calculate_unified_score_v2(m, ind, adv)
    /\ UNCHANGED <<protector_vars, crypto_vars, other_vars>>

NextScore ==
    \/ \E m \in MarketInputs, ind \in IndicatorInputs : ScoreV1(m, ind)
    \/ \E m \in MarketInputsV2, ind \in IndicatorInputsV2,
          adv \in AdvancedInputs : ScoreV2(m, ind, adv)

SpecScore == Init /\ [][NextScore]_vars

\* the first trading cycle after start-up, over every signal and broker report
FirstCycle(signal, snap, ok) ==
    /\ ~order.attempted
    /\ TradingCycle(signal, snap, ok)

NextSizing ==
    \E signal \in SignalInputs, snap \in Snapshots, ok \in BOOLEAN :
        FirstCycle(signal, snap, ok)

SpecSizing == Init /\ [][NextSizing]_vars

----------------------------------------------------------------------------
(* The leverage manager on its own: decisions on plain signals, and its two
   counters (lines 248-271)                                                 *)

\* can_use_leverage(signal)
CanUseLeverage(signal) ==
    /\ decision' = [ asked |-> TRUE, signal |-> signal,
                     open_count |-> leveraged_positions,
                     daily_count |-> daily_leveraged_trades,
                     mode |-> mode,
                     result |-> can_use_leverage(signal, leveraged_positions,
                                                 daily_leveraged_trades) ]
    /\ UNCHANGED <<leveraged_positions, daily_leveraged_trades, risk_daily_pnl,
                   risk_daily_trades, risk_consecutive_losses, cooling,
                   positions, bot_trades_today, leveraged_trades_today, order>>
    /\ UNCHANGED <<protector_vars, scored, other_vars>>

OpenLeveragedPosition ==
    /\ leveraged_positions < MaxOpened
    /\ leveraged_positions' = leveraged_positions + 1
    /\ UNCHANGED <<daily_leveraged_trades, risk_daily_pnl, risk_daily_trades,
                   risk_consecutive_losses, cooling, positions,
                   bot_trades_today, leveraged_trades_today, decision, order>>
    /\ UNCHANGED <<protector_vars, scored, other_vars>>

\* close_leveraged_position(pnl), with record_leveraged_trade
CloseLeveragedPosition ==
    /\ daily_leveraged_trades < MaxDaily
    /\ leveraged_positions' = Max(0, leveraged_positions - 1)
    /\ daily_leveraged_trades' = daily_leveraged_trades + 1
    /\ UNCHANGED <<risk_daily_pnl, risk_daily_trades, risk_consecutive_losses,
                   cooling, positions, bot_trades_today,
                   leveraged_trades_today, decision, order>>
    /\ UNCHANGED <<protector_vars, scored, other_vars>>

\* LeverageManager.reset_daily
LeverageResetDaily ==
    /\ daily_leveraged_trades' = 0
    /\ UNCHANGED <<leveraged_positions, risk_daily_pnl, risk_daily_trades,
                   risk_consecutive_losses, cooling, positions,
                   bot_trades_today, leveraged_trades_today, decision, order>>
    /\ UNCHANGED <<protector_vars, scored, other_vars>>

NextLeverage ==
    \/ \E signal \in DecisionSignals : CanUseLeverage(signal)
    \/ OpenLeveragedPosition
    \/ CloseLeveragedPosition
    \/ LeverageResetDaily

SpecLeverage == Init /\ [][NextLeverage]_vars

----------------------------------------------------------------------------
(* The three sizers called on their own.  They keep no state of their own
   between calls: one call from the initial state explores every request.   *)

\* CryptoRiskManager.calculate_position_size(symbol, price, stop_loss,
\* confidence); values in 1/10000 of a currency unit
SizeCrypto(symbol, price, stop_loss, confidence, snap) ==
    LET r == calculate_position_size(symbol, price, stop_loss, confidence,
                 snap, risk_consecutive_losses, cooling, risk_daily_pnl)
    IN  /\ sized = NoSized
        /\ sized' =
             [ sizer |-> "crypto", entry_price |-> price,
               stop_loss |-> stop_loss, confidence |-> confidence,
               accepted |-> r.can_trade, reason |-> r.reason,
               quantity |-> r.qty, position_value |-> r.qty * price,
               cap_value |-> snap.portfolio_value * max_per_crypto(symbol),
               has_room |-> TRUE,
               room_value |-> (max_exposure * snap.portfolio_value
                                   - snap.total_exposure * 100) ]
        /\ UNCHANGED <<protector_vars, crypto_vars, scored>>
        /\ UNCHANGED <<swing, engine, sizing_race, tick_race>>

\* ScalpingRiskManager.calculate_position_size; values in cents
SizeScalping(entry_price, stop_loss, volatility_pct, book) ==
    LET r == scalping_calculate_position_size(entry_price, stop_loss,
                 volatility_pct, book)
    IN  /\ sized = NoSized
        /\ sized' =
             [ sizer |-> "scalping", entry_price |-> entry_price,
               stop_loss |-> stop_loss, confidence |-> 0,
               accepted |-> r.allowed, reason |-> r.reason,
               quantity |-> r.shares,
               position_value |-> r.shares * entry_price,
               cap_value |-> book.current_capital * scalping_max_position_pct,
               has_room |-> TRUE,
               room_value |-> book.current_capital * scalping_max_exposure_pct
                                  - book.total_exposure ]
        /\ UNCHANGED <<protector_vars, crypto_vars, scored>>
        /\ UNCHANGED <<swing, engine, sizing_race, tick_race>>

\* RiskManager.calculate_position_size; values in cents.  The swing manager
\* has no total-exposure limit.
SizeSwing(entry_price, stop_loss, account) ==
    LET shares == swing_calculate_position_size(entry_price, stop_loss, account)
    IN  /\ sized = NoSized
        /\ sized' =
             [ sizer |-> "swing", entry_price |-> entry_price,
               stop_loss |-> stop_loss, confidence |-> 0,
               accepted |-> shares > 0, reason |-> "",
               quantity |-> shares,
               position_value |-> shares * entry_price,
               cap_value |-> account.portfolio_value * swing_max_position_pct,
               has_room |-> FALSE, room_value |-> 0 ]
        /\ UNCHANGED <<protector_vars, crypto_vars, scored>>
        /\ UNCHANGED <<swing, engine, sizing_race, tick_race>>

NextSizers ==
    \/ \E symbol \in SizedSymbols, f \in StopFractions,
          confidence \in SizedConfidences, snap \in Snapshots :
           SizeCrypto(symbol, close_price(symbol),
                      stop_below(close_price(symbol), f), confidence, snap)
    \/ \E entry_price \in ScalpingEntries, f \in StopFractions,
          volatility_pct \in Volatilities, book \in Books :
           SizeScalping(entry_price, stop_below(entry_price, f),
                        volatility_pct, book)
    \/ \E entry_price \in SwingEntries, f \in SwingStopFractions,
          account \in Accounts :
           SizeSwing(entry_price, stop_below(entry_price, f), account)

SpecSizers == Init /\ [][NextSizers]_vars

----------------------------------------------------------------------------
(* HunterThread and ScalpingThread sizing and submitting on one account.
   Values in cents.  Neither bot takes a lock, so the steps of the two
   threads interleave freely.                                               *)

\* what get_account_info and get_positions report to the crypto bot: the
\* positions whose symbol contains USD (crypto_risk.py line 115)
race_snapshot(symbol) ==
    [ portfolio_value |-> RaceEquity,
      cash |-> RaceEquity - (sizing_race.crypto_exposure
                               + sizing_race.stock_exposure) \div 100,
      n_positions |-> Cardinality(sizing_race.crypto_held),
      held |-> symbol \in sizing_race.crypto_held,
      total_exposure |-> sizing_race.crypto_exposure ]

\* the scalping bot's own book (register_trade_entry)
race_book ==
    [ current_capital |-> RaceEquity, pnl_pct |-> 0,
      trades_count |-> sizing_race.scalper_positions,
      consecutive_losses |-> 0,
      open_positions |-> sizing_race.scalper_positions,
      total_exposure |-> sizing_race.stock_exposure ]

\* CryptoHunterBot.execute_trade, lines 346-356: calculate_position_size
HunterSize(signal) ==
    LET r == calculate_position_size(signal.symbol, signal.entry_price,
                 signal.stop_loss, signal.confidence,
                 race_snapshot(signal.symbol), risk_consecutive_losses,
                 cooling, risk_daily_pnl)
    IN  /\ sizing_race.hunter.pc = "idle"
        /\ Cardinality(sizing_race.crypto_held) < MaxRaceOrders
        /\ sizing_race' = [sizing_race EXCEPT !.hunter =
               IF r.can_trade
               THEN [ pc |-> "submitting",
                      limit |-> (max_exposure * RaceEquity) \div 100,
                      value |-> (r.qty * signal.entry_price) \div 100,
                      symbol |-> signal.symbol, committed |-> FALSE,
                      exposure_after |-> 0 ]
               ELSE IdleThread]
        /\ UNCHANGED <<protector_vars, crypto_vars, scored>>
        /\ UNCHANGED <<sized, swing, engine, tick_race>>

\* execute_trade, lines 380-386: api.submit_order
HunterSubmit ==
    LET th == sizing_race.hunter
        exposure == sizing_race.crypto_exposure + th.value
    IN  /\ th.pc = "submitting"
        /\ sizing_race' = [sizing_race EXCEPT
               !.crypto_exposure = exposure,
               !.crypto_held = @ \cup {th.symbol},
               !.hunter = [th EXCEPT !.pc = "idle", !.committed = TRUE,
                   !.exposure_after = exposure + sizing_race.stock_exposure]]
        /\ UNCHANGED <<protector_vars, crypto_vars, scored>>
        /\ UNCHANGED <<sized, swing, engine, tick_race>>

\* ScalpingBot.execute_buy, lines 248-262: calculate_position_size
ScalperSize(entry_price, stop_loss) ==
    LET r == scalping_calculate_position_size(entry_price, stop_loss, 100,
                                              race_book)
    IN  /\ sizing_race.scalper.pc = "idle"
        /\ sizing_race.scalper_positions < MaxRaceOrders
        /\ sizing_race' = [sizing_race EXCEPT !.scalper =
               IF r.allowed
               THEN [ pc |-> "submitting",
                      limit |-> RaceEquity * scalping_max_exposure_pct,
                      value |-> r.shares * entry_price,
                      symbol |-> "", committed |-> FALSE,
                      exposure_after |-> 0 ]
               ELSE IdleThread]
        /\ UNCHANGED <<protector_vars, crypto_vars, scored>>
        /\ UNCHANGED <<sized, swing, engine, tick_race>>

\* execute_buy, lines 266-289: api.submit_order and register_trade_entry
ScalperSubmit ==
    LET th == sizing_race.scalper
        exposure == sizing_race.stock_exposure + th.value
    IN  /\ th.pc = "submitting"
        /\ sizing_race' = [sizing_race EXCEPT
               !.stock_exposure = exposure,
               !.scalper_positions = @ + 1,
               !.scalper = [th EXCEPT !.pc = "idle", !.committed = TRUE,
                   !.exposure_after = exposure + sizing_race.crypto_exposure]]
        /\ UNCHANGED <<protector_vars, crypto_vars, scored>>
        /\ UNCHANGED <<sized, swing, engine, tick_race>>

NextSizingRace ==
    \/ \E signal \in RaceSignals : HunterSize(signal)
    \/ HunterSubmit
    \/ \E entry_price \in RaceEntries, f \in StopFractions \ {0} :
           ScalperSize(entry_price, stop_below(entry_price, f))
    \/ ScalperSubmit

SpecSizingRace == Init /\ [][NextSizingRace]_vars

----------------------------------------------------------------------------
(* update_trade (long branch, lines 204-280) statement by statement, for two
   concurrent calls on one position                                         *)

tick_unchanged ==
    /\ UNCHANGED <<current_capital, high_watermark, daily_pnl, weekly_pnl,
                   trades_today, consecutive_losses, mode, result, last_op,
                   sizing, max_capital>>
    /\ UNCHANGED <<crypto_vars, scored>>
    /\ UNCHANGED <<sized, swing, engine, sizing_race>>

\* the call th moves to statement pc
tick_goto(th, pc) == [tick_race EXCEPT !.threads[th].pc = pc]

\* lines 209-215: the call starts on the stored position
TickBegin(th, k) ==
    /\ trade # NoTrade
    /\ tick_race.threads[th].pc = "idle"
    /\ tick_race.calls < MaxRaceTicks
    /\ tick_race' = [tick_race EXCEPT
           !.calls = @ + 1,
           !.threads[th] = [pc |-> "highest",
                            current_price |-> (trade.entry_price * k) \div 1000,
                            new_stop |-> 0]]
    /\ UNCHANGED trade
    /\ tick_unchanged

\* lines 218-221
TickHighest(th) ==
    LET current_price == tick_race.threads[th].current_price
    IN  /\ tick_race.threads[th].pc = "highest"
        /\ trade' = [trade EXCEPT
               !.highest_price = Max(@, current_price),
               !.lowest_price = Min(@, current_price)]
        /\ tick_race' = tick_goto(th, "stop")
        /\ tick_unchanged

\* line 227: stop loss touched, return EXIT_ALL
TickStopTest(th) ==
    /\ tick_race.threads[th].pc = "stop"
    /\ tick_race' =
         IF tick_race.threads[th].current_price <= trade.current_stop
         THEN tick_goto(th, "idle") ELSE tick_goto(th, "tp1")
    /\ UNCHANGED trade
    /\ tick_unchanged

\* lines 235 and 244: the test of a take-profit tier
TickTakeProfitTest(th, tier) ==
    LET current_price == tick_race.threads[th].current_price
        due == IF tier = "tp1"
               THEN ~trade.tp1_hit /\ current_price >= trade.tp1
               ELSE ~trade.tp2_hit /\ current_price >= trade.tp2
    IN  /\ tick_race.threads[th].pc = tier
        /\ tick_race' =
             IF due THEN tick_goto(th, IF tier = "tp1" THEN "tp1_set"
                                                        ELSE "tp2_set")
             ELSE tick_goto(th, IF tier = "tp1" THEN "tp2" ELSE "tp3")
        /\ UNCHANGED trade
        /\ tick_unchanged

\* lines 236-241 and 245-250: set the flag, append PARTIAL_EXIT
TickTakeProfitSet(th, tier) ==
    /\ tick_race.threads[th].pc = (IF tier = "tp1" THEN "tp1_set" ELSE "tp2_set")
    /\ trade' = IF tier = "tp1" THEN [trade EXCEPT !.tp1_hit = TRUE]
                                ELSE [trade EXCEPT !.tp2_hit = TRUE]
    /\ tick_race' =
         IF tier = "tp1"
         THEN [tick_race EXCEPT !.threads[th].pc = "tp2",
                                !.emitted.tp1 = @ + 1]
         ELSE [tick_race EXCEPT !.threads[th].pc = "tp3",
                                !.emitted.tp2 = @ + 1]
    /\ tick_unchanged

\* line 253: TP3, return EXIT_ALL
TickTp3Test(th) ==
    /\ tick_race.threads[th].pc = "tp3"
    /\ tick_race' =
         IF tick_race.threads[th].current_price >= trade.tp3
         THEN tick_goto(th, "idle") ELSE tick_goto(th, "break_even")
    /\ UNCHANGED trade
    /\ tick_unchanged

\* line 261
TickBreakEvenTest(th) ==
    /\ tick_race.threads[th].pc = "break_even"
    /\ tick_race' =
         IF break_even_due_long(trade, tick_race.threads[th].current_price)
         THEN tick_goto(th, "break_even_set") ELSE tick_goto(th, "trail")
    /\ UNCHANGED trade
    /\ tick_unchanged

\* lines 262-268: set the flag, assign the stop, append MOVE_STOP
TickBreakEvenSet(th) ==
    /\ tick_race.threads[th].pc = "break_even_set"
    /\ trade' = [trade EXCEPT
           !.at_break_even = TRUE,
           !.current_stop = break_even_stop_long(trade.entry_price)]
    /\ tick_race' = [tick_race EXCEPT !.threads[th].pc = "trail",
                                      !.emitted.break_even = @ + 1]
    /\ tick_unchanged

\* lines 271-274: trailing_active, new_stop and its comparison with the stop
TickTrailTest(th) ==
    LET current_price == tick_race.threads[th].current_price
        trail == current_price >= trade.trailing_start
        new_stop == trail_candidate_long(current_price, trade.trailing_distance)
    IN  /\ tick_race.threads[th].pc = "trail"
        /\ trade' = [trade EXCEPT !.trailing_active = @ \/ trail]
        /\ tick_race' =
             IF trail /\ trail_raises(new_stop, trade.current_stop)
             THEN [tick_race EXCEPT !.threads[th].pc = "trail_set",
                                    !.threads[th].new_stop = new_stop]
             ELSE tick_goto(th, "idle")
        /\ tick_unchanged

\* lines 275-280: assign the stop, append TRAIL_STOP, return
TickTrailSet(th) ==
    /\ tick_race.threads[th].pc = "trail_set"
    /\ trade' = [trade EXCEPT !.current_stop = tick_race.threads[th].new_stop]
    /\ tick_race' = tick_goto(th, "idle")
    /\ tick_unchanged

NextTickRace ==
    \/ \E e \in EntryPrices, a \in AtrInputs : ProtectedEntry(e, "long", a)
    \/ \E th \in TickThreads, k \in RaceTickPermille : TickBegin(th, k)
    \/ \E th \in TickThreads : TickHighest(th)
    \/ \E th \in TickThreads : TickStopTest(th)
    \/ \E th \in TickThreads, tier \in {"tp1", "tp2"} :
           TickTakeProfitTest(th, tier)
    \/ \E th \in TickThreads, tier \in {"tp1", "tp2"} :
           TickTakeProfitSet(th, tier)
    \/ \E th \in TickThreads : TickTp3Test(th)
    \/ \E th \in TickThreads : TickBreakEvenTest(th)
    \/ \E th \in TickThreads : TickBreakEvenSet(th)
    \/ \E th \in TickThreads : TickTrailTest(th)
    \/ \E th \in TickThreads : TickTrailSet(th)

SpecTickRace == Init /\ [][NextTickRace]_vars

----------------------------------------------------------------------------
(* The trading cycles, step by step *)

cycle_unchanged ==
    /\ UNCHANGED <<protector_vars, crypto_vars, scored>>
    /\ UNCHANGED <<sized, swing, sizing_race, tick_race>>

\* the scheduler calls the cycle (trading_engine_v2.py lines 369-388,
\* crypto_hunter.py lines 483-487)
CycleStart(bot) ==
    LET c == engine[bot]
    IN  /\ c.pc = "idle"
        /\ c.cycles < MaxCycles
        /\ engine' = [engine EXCEPT ![bot] =
               [ c EXCEPT !.pc = IF bot = "engine_v2" THEN "check_exits"
                                                       ELSE "market",
                          !.cycles = @ + 1, !.steps = <<>>,
                          !.at_start = [held |-> c.held,
                                        closed_trades |-> c.closed_trades],
                          !.timed_out = {}, !.fetched = {},
                          !.opportunities = {}, !.blocked = FALSE,
                          !.error = FALSE, !.order = "" ]]
        /\ cycle_unchanged

\* check_exits_immediate and execute_exits (lines 392-394), check_exits
\* (crypto_hunter.py line 498); due: the positions with an exit signal
CycleCheckExits(bot, due) ==
    LET c == engine[bot]
        closed == [c EXCEPT !.held = @ \ due,
                            !.closed_trades = @ + Cardinality(due)]
    IN  /\ c.pc = "check_exits"
        /\ due \subseteq c.held
        /\ engine' = [engine EXCEPT ![bot] =
               cycle_step(closed, "check_exits",
                          IF bot = "engine_v2" THEN "fetch" ELSE "scan")]
        /\ cycle_unchanged

(* fetch_all_data_parallel (lines 175-209) and the blocked test (lines
   399-405).  A fetch that exceeds its 15 s is caught and skipped (lines
   203-204): late symbols are missing from the results; a late market
   analysis leaves results['market'] = None, on which line 403 raises, and
   the cycle ends in the handler of line 424.                              *)
EngineFetch(market, late) ==
    LET c == engine["engine_v2"]
        f == [c EXCEPT !.timed_out = late \cup (IF market = "timeout"
                                                THEN {"market"} ELSE {}),
                       !.fetched = EngineSymbols \ late,
                       !.error = (market = "timeout"),
                       !.blocked = (market = "blocked")]
    IN  /\ c.pc = "fetch"
        /\ engine' = [engine EXCEPT !["engine_v2"] =
               cycle_step(f, "fetch",
                          IF market = "ok" THEN "analyze" ELSE "idle")]
        /\ cycle_unchanged

\* check_market_conditions and the early return (crypto_hunter.py lines
\* 490-495)
HunterMarket(tradable) ==
    LET c == engine["hunter"]
    IN  /\ c.pc = "market"
        /\ engine' = [engine EXCEPT !["hunter"] =
               cycle_step([c EXCEPT !.blocked = ~tradable],
                          "market_conditions",
                          IF tradable THEN "check_exits" ELSE "idle")]
        /\ cycle_unchanged

\* analyze_opportunities (lines 410-411), scan_opportunities (crypto_hunter.py
\* line 501); buys: the symbols whose signal is BUY with a sufficient score
CycleAnalyze(bot, buys) ==
    LET c == engine[bot]
        scanned == IF bot = "engine_v2" THEN c.fetched ELSE EngineSymbols
        found == [c EXCEPT !.opportunities = scanned \cap buys]
    IN  /\ c.pc = (IF bot = "engine_v2" THEN "analyze" ELSE "scan")
        /\ engine' = [engine EXCEPT ![bot] =
               cycle_step(found,
                          IF bot = "engine_v2" THEN "analyze" ELSE "scan",
                          IF found.opportunities = {} THEN "idle"
                                                      ELSE "execute")]
        /\ cycle_unchanged

\* execute_best_opportunity (lines 291-363), execute_trade (crypto_hunter.py
\* lines 339-420) on the best opportunity; sized: calculate_position_size
\* accepts; ok: submit_order returns
CycleExecute(bot, best, sized_ok, ok) ==
    LET c == engine[bot]
        placed == sized_ok /\ best \notin c.held /\ ok
        done == IF placed THEN [c EXCEPT !.order = best,
                                         !.held = @ \cup {best}]
                          ELSE c
    IN  /\ c.pc = "execute"
        /\ best \in c.opportunities
        /\ engine' = [engine EXCEPT ![bot] =
               cycle_step(done, "execute", "idle")]
        /\ cycle_unchanged

NextEngine ==
    \/ \E bot \in Bots : CycleStart(bot)
    \/ \E bot \in Bots, due \in SUBSET EngineSymbols :
           CycleCheckExits(bot, due)
    \/ \E market \in MarketFetches, late \in SUBSET EngineSymbols :
           EngineFetch(market, late)
    \/ \E tradable \in BOOLEAN : HunterMarket(tradable)
    \/ \E bot \in Bots, buys \in SUBSET EngineSymbols :
           CycleAnalyze(bot, buys)
    \/ \E bot \in Bots, best \in EngineSymbols, sized_ok \in BOOLEAN,
          ok \in BOOLEAN : CycleExecute(bot, best, sized_ok, ok)

SpecEngine == Init /\ [][NextEngine]_vars

----------------------------------------------------------------------------
(* The swing bot's trailing stop for the position of one symbol *)

swing_unchanged ==
    /\ UNCHANGED <<protector_vars, crypto_vars, scored>>
    /\ UNCHANGED <<sized, engine, sizing_race, tick_race>>

\* the broker reports a position at avg_entry_price
SwingOpen(entry_price) ==
    /\ swing = NoSwing
    /\ swing' = [NoSwing EXCEPT !.entry_price = entry_price,
                                !.current_price = entry_price]
    /\ swing_unchanged

\* update_trailing_stop(position) at a current price
UpdateTrailingStop(k) ==
    LET current_price == (swing.entry_price * k) \div 1000
        r == update_trailing_stop(swing.stored, swing.trailing_stop,
                                  swing.entry_price, current_price)
    IN  /\ swing.entry_price > 0
        /\ swing' = [ entry_price |-> swing.entry_price,
                      current_price |-> current_price,
                      stored |-> r.stored, trailing_stop |-> r.trailing_stop,
                      was_stored |-> swing.stored, old_stop |-> r.old_stop,
                      returned |-> r.returned ]
        /\ swing_unchanged

NextSwing ==
    \/ \E entry_price \in SwingPositions : SwingOpen(entry_price)
    \/ \E k \in SwingTickPermille : UpdateTrailingStop(k)

SpecSwing == Init /\ [][NextSwing]_vars

----------------------------------------------------------------------------
(* Claims *)

(* C1: for a position created by calculate_protected_entry and driven by
   update_trade, current_stop never decreases from one call to the next for
   a long position and never increases for a short one.                    *)
C1_StopMonotone ==
    [][ (trade # NoTrade /\ trade' # NoTrade) =>
          /\ trade.side = "long" => trade'.current_stop >= trade.current_stop
          /\ trade.side = "short" => trade'.current_stop <= trade.current_stop
      ]_vars

\* a long position whose stop was first moved to break-even and then trailed
C1_Witness ==
    /\ trade # NoTrade
    /\ trade.side = "long"
    /\ trade.at_break_even /\ trade.trailing_active
    /\ trade.current_stop > (trade.entry_price * (BP + break_even_buffer)) \div BP
    /\ last_op = "update_trade"
    /\ result.action = "HOLD"

----------------------------------------------------------------------------
(* The threshold policy of the specification, on the daily P&L:
   daily_loss_pct = max(0, -daily_pnl) / initial_capital, compared with
   8%, 5% and 3%, boundaries inclusive.                                    *)
PolicyMode(pnl_day) ==
    LET loss == Max(0, -pnl_day)
    IN  IF loss * 100 >= 8 * initial_capital THEN "LOCKDOWN"
        ELSE IF loss * 100 >= 5 * initial_capital THEN "DEFENSIVE"
        ELSE IF loss * 100 >= 3 * initial_capital THEN "CAUTIOUS"
        ELSE "NORMAL"

(* C3 as stated: once in LOCKDOWN every later P&L update leaves the mode
   LOCKDOWN, and reset_daily returns the mode to NORMAL.                   *)
C3_LockdownUntilDailyReset ==
    [][ /\ (mode = "LOCKDOWN" /\ last_op' = "update_daily_pnl")
              => mode' = "LOCKDOWN"
        /\ (mode = "LOCKDOWN" /\ last_op' = "reset_daily")
              => mode' = "NORMAL"
      ]_vars

(* C3 amended: from LOCKDOWN, a P&L update keeps LOCKDOWN exactly while the
   daily loss is still at least 8% of the initial capital, reset_daily keeps
   LOCKDOWN, and reset_weekly is the operation that returns to NORMAL.     *)
C3_LockdownLeftByRecoveryOrWeeklyReset ==
    [][ mode = "LOCKDOWN" =>
          /\ last_op' = "update_daily_pnl" =>
                (mode' = "LOCKDOWN" <=> -daily_pnl' * 100 >= 8 * initial_capital)
          /\ last_op' = "reset_daily" => mode' = "LOCKDOWN"
          /\ last_op' = "reset_weekly" => mode' = "NORMAL"
      ]_vars

\* LOCKDOWN has survived a daily reset: the daily loss is back to 0
C3_Witness ==
    mode = "LOCKDOWN" /\ last_op = "reset_daily" /\ daily_pnl = 0

(* C4 as stated: in every reachable state the stored mode is the threshold
   policy applied to the current daily loss.                               *)
C4_ModeIsPolicyEverywhere == mode = PolicyMode(daily_pnl)

(* C4 amended: in every state reached by update_daily_pnl the stored mode is
   the threshold policy applied to the daily loss (boundaries inclusive),
   and booking a zero P&L again leaves that mode unchanged; the resets set
   the mode without looking at the daily loss.                             *)
C4_ModeIsPolicyAfterUpdate ==
    last_op = "update_daily_pnl" =>
        /\ mode = PolicyMode(daily_pnl)
        /\ mode_for(daily_pnl + 0) = mode

\* a P&L update that lands exactly on the 3% boundary
C4_Witness ==
    last_op = "update_daily_pnl" /\ daily_pnl = -30 /\ mode = "CAUTIOUS"

(* C5: whenever the mode is LOCKDOWN the risk multiplier is 0, can_trade
   refuses, and calculate_protected_entry returns quantity 0 for every
   entry price, direction and volatility input.                            *)
C5_LockdownBlocksSizing ==
    mode = "LOCKDOWN" =>
        /\ _get_risk_multiplier(mode, consecutive_losses) = 0
        /\ ~can_trade(mode, consecutive_losses).can_trade
        /\ \A e \in EntryPrices, d \in Sides, a \in AtrInputs :
              calculate_protected_entry(e, d, a, current_capital, mode,
                                        consecutive_losses).quantity = 0
        /\ last_op = "calculate_protected_entry" => trade.quantity = 0

\* initial capital 1000, daily P&L -90, and an entry sized in LOCKDOWN
C5_Witness ==
    /\ mode = "LOCKDOWN" /\ daily_pnl = -90
    /\ last_op = "calculate_protected_entry"
    /\ sizing.atr = 200 /\ trade.quantity = 0

(* C6 as stated: the risk multiplier is the mode factor times the loss
   factor, for every mode and consecutive-loss count (tenths x tenths).    *)
ModeFactor(m) ==
    IF m = "LOCKDOWN" THEN 0 ELSE IF m = "DEFENSIVE" THEN 3
    ELSE IF m = "CAUTIOUS" THEN 6 ELSE 10
LossFactor(losses) ==
    IF losses >= 3 THEN 5 ELSE IF losses = 2 THEN 7 ELSE 10

C6_MultiplierIsProduct ==
    _get_risk_multiplier(mode, consecutive_losses) * 10
        = ModeFactor(mode) * LossFactor(consecutive_losses)

(* C6 amended: the risk multiplier is the mode factor alone in LOCKDOWN,
   DEFENSIVE and CAUTIOUS, whatever the consecutive-loss count, and the
   loss factor alone in NORMAL.                                            *)
C6_MultiplierIsModeOrLossFactor ==
    _get_risk_multiplier(mode, consecutive_losses)
        = IF mode = "NORMAL" THEN LossFactor(consecutive_losses)
                             ELSE ModeFactor(mode)

\* a reduced mode together with a run of losses
C6_Witness ==
    mode = "CAUTIOUS" /\ consecutive_losses >= 3

(* C7: high_watermark is the largest value current_capital has had, so it
   is at least current_capital and the drawdown is never negative; only
   update_daily_pnl changes current_capital.                               *)
C7_HighWatermark ==
    /\ [](/\ high_watermark = max_capital
          /\ high_watermark >= current_capital
          /\ drawdown(high_watermark, current_capital) >= 0)
    /\ [][current_capital' # current_capital
            => last_op' = "update_daily_pnl"]_vars

\* a drawdown after a new high, seen across a reset
C7_Witness ==
    /\ high_watermark > initial_capital
    /\ current_capital < high_watermark
    /\ last_op = "reset_weekly"

----------------------------------------------------------------------------
(* C2: for every sizing result with equity > 0 and stop distance > 0, the
   capital at risk - final order quantity x final stop distance, after the
   leverage multiplication of the quantity and the leverage adjustment of the
   stop - is at most equity x risk_per_trade x the protection mode's risk
   multiplier.  (quantity 1/100000 x distance in cents on the left; the right
   side is brought to the same unit.)                                       *)
C2_RiskCapped ==
    (order.attempted /\ order.can_trade /\ order.equity > 0
         /\ order.stop_distance > 0)
    => order.qty * order.stop_distance
           <= order.equity * risk_per_trade
                  * _get_risk_multiplier(mode, consecutive_losses) * 100

----------------------------------------------------------------------------
(* C8, as stated: a leverage decision is refused (eligible = false,
   multiplier 1.0) if the protection mode is LOCKDOWN, or the confidence is
   below min_confidence, or max_leveraged_positions leveraged positions are
   open; and a multiplier above 1.0 implies eligible.                      *)
C8_GatedByModeConfidenceAndCount ==
    decision.asked =>
        /\ ( \/ decision.mode = "LOCKDOWN"
             \/ decision.signal.confidence < min_confidence
             \/ decision.open_count >= max_leveraged_positions )
           => (~decision.result.can_leverage /\ decision.result.multiplier = 10)
        /\ decision.result.multiplier > 10 => decision.result.can_leverage

(* C8, amended: the decision is refused (eligible = false, multiplier 1.0) if
   the confidence is below min_confidence or max_leveraged_positions leveraged
   positions are open, and a multiplier above 1.0 implies eligible; the
   protection mode is not an input of the decision.                         *)
C8_GatedByConfidenceAndCount ==
    decision.asked =>
        /\ ( \/ decision.signal.confidence < min_confidence
             \/ decision.open_count >= max_leveraged_positions )
           => (~decision.result.can_leverage /\ decision.result.multiplier = 10)
        /\ decision.result.multiplier > 10 => decision.result.can_leverage

\* a signal good enough for 5x is refused because three leveraged positions
\* are open
C8_Witness ==
    /\ decision.asked
    /\ decision.open_count >= max_leveraged_positions
    /\ decision.signal.confidence >= extreme_confidence
    /\ decision.signal.score >= 11
    /\ ~decision.result.can_leverage

----------------------------------------------------------------------------
(* C9: stop tightening follows the leverage tier.  For every decision with a
   multiplier above 1.0 the adjusted stop-loss percentage is strictly smaller
   than the signal's own, and so is the stop distance of the order placed;
   over the tiers ordered by multiplier the adjusted stop never widens, in
   the leverage manager's stop multipliers and in the scorer's stop matrix. *)
C9_StopTightening ==
    /\ (decision.asked /\ decision.result.multiplier > 10)
       => decision.result.adjusted_stop_loss < decision.signal.stop_loss_pct * 100
    /\ (order.attempted /\ order.can_trade /\ order.leverage > 10)
       => order.stop_distance < order.signal_stop_distance
    /\ \A t \in Levels :
           level_multiplier(t) > 10 => stop_multipliers(t) < stop_multipliers("NONE")
    /\ \A t1, t2 \in Levels :
           level_multiplier(t1) < level_multiplier(t2)
           => stop_multipliers(t1) >= stop_multipliers(t2)
    /\ \A l \in {15, 20, 30, 50} : stop_matrix(l) < stop_matrix(10)
    /\ \A l1, l2 \in {10, 15, 20, 30, 50} :
           l1 < l2 => stop_matrix(l1) >= stop_matrix(l2)

\* a 5x order has been placed with its tightened stop
C9_Witness ==
    /\ decision.asked
    /\ decision.result.multiplier = 50
    /\ order.submitted
    /\ order.leverage = 50

----------------------------------------------------------------------------
(* C10: the score-to-leverage mapping is a step function over contiguous,
   non-overlapping bands that cover every reachable total score from 0 to
   100, and the multiplier never decreases as the score grows.              *)
matrix_of(version) ==
    IF version = 1 THEN leverage_matrix ELSE leverage_matrix_v2

C10_LeverageStepFunction ==
    scored.version # 0 =>
        LET mx == matrix_of(scored.version)
        IN  /\ \E i \in 1..Len(mx) :
                   mx[i][1] <= scored.total_score /\ scored.total_score < mx[i][2]
            /\ \A i, j \in 1..Len(mx) :
                   i # j => (mx[i][2] <= mx[j][1] \/ mx[j][2] <= mx[i][1])
            /\ \A x \in 0..scored.total_score :
                   band_lookup(mx, x, 1, 0) <= scored.leverage

----------------------------------------------------------------------------
(* C11 as stated: a signal with score 82 and confidence 90, decided while no
   leveraged position is open, gets multiplier 3.0 and eligible = true.     *)
C11_Score82Confidence90Gets3x ==
    ( /\ decision.asked
      /\ decision.signal.score = 82 /\ decision.signal.confidence = 90
      /\ decision.open_count = 0 )
    => (decision.result.multiplier = 30 /\ decision.result.can_leverage)

(* C11, amended: the same signal gets multiplier 3.0 and eligible = true when
   its risk/reward is at least min_risk_reward and fewer than
   max_daily_leveraged leveraged trades have been recorded, and is refused
   with multiplier 1.0 otherwise; in both score tables of OptimalStrategy a
   total of 82 maps to leverage 3.0.                                         *)
C11_Score82Confidence90Gets3xWithinGates ==
    /\ ( /\ decision.asked
         /\ decision.signal.score = 82 /\ decision.signal.confidence = 90
         /\ decision.open_count = 0 )
       => IF /\ decision.signal.risk_reward >= min_risk_reward
             /\ decision.daily_count < max_daily_leveraged
          THEN decision.result.multiplier = 30 /\ decision.result.can_leverage
          ELSE decision.result.multiplier = 10 /\ ~decision.result.can_leverage
    /\ band_lookup(leverage_matrix, 82, 1, 0) = 30
    /\ band_lookup(leverage_matrix_v2, 82, 1, 0) = 30

\* the scenario's signal, with a risk/reward of 2.4, is granted 3x
C11_Witness ==
    /\ decision.asked
    /\ decision.signal.score = 82 /\ decision.signal.confidence = 90
    /\ decision.open_count = 0
    /\ decision.signal.risk_reward >= min_risk_reward
    /\ decision.daily_count < max_daily_leveraged
    /\ decision.result.level = "HIGH"
    /\ decision.result.multiplier = 30 /\ decision.result.can_leverage

----------------------------------------------------------------------------
\* the declared maximum of each component ('max' in the result)
component_max(version) ==
    IF version = 1
    THEN [market_intel |-> 30, technical |-> 40, volume |-> 15,
          confirmation |-> 15]
    ELSE [market_intel |-> 35, technical |-> 40, volume |-> 15,
          confirmation |-> 10]

(* C12: whatever the market and indicator inputs, empty maps included, each
   sub-score lies between 0 and its cap, the total is the sum of the four
   sub-scores, and the total lies between 0 and 100.                        *)
C12_ScoreWithinBounds ==
    scored.version # 0 =>
        LET cap == component_max(scored.version)
        IN  /\ 0 <= scored.market_intel /\ scored.market_intel <= cap.market_intel
            /\ 0 <= scored.technical /\ scored.technical <= cap.technical
            /\ 0 <= scored.volume /\ scored.volume <= cap.volume
            /\ 0 <= scored.confirmation
            /\ scored.confirmation <= cap.confirmation
            /\ scored.total_score = scored.market_intel + scored.technical
                                    + scored.volume + scored.confirmation
            /\ 0 <= scored.total_score /\ scored.total_score <= 100

\* the V2 score of two empty maps and no df: 27 + 10 + 1 + 0
C12_Witness ==
    /\ scored = calculate_unified_score_v2(EmptyMarketV2, EmptyIndicators,
                                           NoAdvanced)
    /\ scored.version = 2
    /\ scored.market_intel = 27 /\ scored.technical = 10
    /\ scored.volume = 1 /\ scored.confirmation = 0
    /\ scored.total_score = 38

----------------------------------------------------------------------------
(* C13: when the calendar block flag is set, the market component is 0 and
   the result is no trade: the action is not a buy and the leverage is 0,
   whatever the other three sub-scores are.                                 *)
C13_CalendarBlockMeansNoTrade ==
    (scored.version = 2 /\ scored.calendar_blocked) =>
        /\ scored.market_intel = 0
        /\ scored.action = "HOLD"
        /\ scored.leverage = 0

----------------------------------------------------------------------------
(* The ladder, tick by tick *)

\* the price of tick k for the stored position
tick_price(k) == (trade.entry_price * k) \div 1000

\* the price is at or beyond the level on the adverse / favourable side
adverse(t, price, level) ==
    IF t.side = "long" THEN price <= level ELSE price >= level
favourable(t, price, level) ==
    IF t.side = "long" THEN price >= level ELSE price <= level

\* the value returned is neither an exit nor an error
non_exiting(r) == r.action \in {"HOLD", "MULTIPLE"}

\* the entries of an 'actions' list with a given action
actions_of(r, action) ==
    { i \in 1..Len(r.actions) : r.actions[i].action = action }

(* C14: on every tick, a price at or beyond the current stop on the adverse
   side returns EXIT_ALL for the stop and nothing else; otherwise a price at
   or beyond the final take-profit returns EXIT_ALL for it, with no partial
   exit and no stop move alongside.                                         *)
C14_ExitPriority ==
    [][ \A k \in TickPermille :
          (trade # NoTrade /\ UpdateTrade(k)) =>
            LET at_stop == adverse(trade, tick_price(k), trade.current_stop)
                at_tp3 == favourable(trade, tick_price(k), trade.tp3)
            IN  /\ at_stop =>
                     /\ result'.action = "EXIT_ALL" /\ result'.reason = "STOP"
                     /\ result'.actions = <<>>
                     /\ trade'.current_stop = trade.current_stop
                /\ (~at_stop /\ at_tp3) =>
                     /\ result'.action = "EXIT_ALL" /\ result'.reason = "TP3"
                     /\ result'.actions = <<>>
                     /\ trade'.current_stop = trade.current_stop
      ]_vars

\* the final take-profit reached on the tick that also crossed TP1, TP2 and
\* the break-even level for the first time: only the exit is returned
C14_Witness ==
    /\ last_op = "update_trade"
    /\ trade # NoTrade /\ trade.side = "long"
    /\ result.action = "EXIT_ALL" /\ result.reason = "TP3"
    /\ result.actions = <<>>
    /\ trade.tp1_hit /\ trade.tp2_hit /\ ~trade.at_break_even
    /\ trade.current_stop = trade.stop_loss

----------------------------------------------------------------------------
\* the PARTIAL_EXIT entries of a returned value for one tier
partial_exits(r, tier) ==
    { i \in actions_of(r, "PARTIAL_EXIT") : r.actions[i].reason = tier }

(* C15: for long and short positions alike, on a non-exiting tick each of
   TP1 and TP2 whose price is crossed and whose flag is not yet set produces
   one PARTIAL_EXIT and sets its flag; a tier whose flag is set produces
   none.                                                                    *)
C15_PartialExitOncePerTier ==
    [][ \A k \in TickPermille :
          (trade # NoTrade /\ UpdateTrade(k) /\ non_exiting(result')) =>
            LET due1 == favourable(trade, tick_price(k), trade.tp1)
                        /\ ~trade.tp1_hit
                due2 == favourable(trade, tick_price(k), trade.tp2)
                        /\ ~trade.tp2_hit
            IN  /\ Cardinality(partial_exits(result', "TP1"))
                     = IF due1 THEN 1 ELSE 0
                /\ Cardinality(partial_exits(result', "TP2"))
                     = IF due2 THEN 1 ELSE 0
                /\ due1 => trade'.tp1_hit
                /\ due2 => trade'.tp2_hit
      ]_vars

----------------------------------------------------------------------------
\* the stop the break-even rule assigns (lines 263, 312)
break_even_stop(t) ==
    IF t.side = "long" THEN break_even_stop_long(t.entry_price)
                       ELSE break_even_stop_short(t.entry_price)

(* C16: the break-even rule fires once per position.  The first non-exiting
   tick at or beyond break_even_level returns one MOVE_STOP whose stop is
   entry_price x (1 + buffer) for a long, entry_price x (1 - buffer) for a
   short, stores that stop (unless the trailing rule moves it on in the same
   tick) and sets at_break_even; a tick on a position whose flag is set
   returns no MOVE_STOP, and no tick clears the flag.                       *)
C16_BreakEvenOnce ==
    [][ \A k \in TickPermille :
          (trade # NoTrade /\ UpdateTrade(k)) =>
            LET due == /\ ~trade.at_break_even
                       /\ favourable(trade, tick_price(k),
                                     trade.break_even_level)
                moves == actions_of(result', "MOVE_STOP")
            IN  /\ (non_exiting(result') /\ due) =>
                     /\ Cardinality(moves) = 1
                     /\ \A i \in moves :
                            result'.actions[i].new_stop = break_even_stop(trade)
                     /\ \/ trade'.current_stop = break_even_stop(trade)
                        \/ actions_of(result', "TRAIL_STOP") # {}
                     /\ trade'.at_break_even
                /\ ~(non_exiting(result') /\ due) =>
                     /\ moves = {}
                     /\ trade'.at_break_even = trade.at_break_even
      ]_vars

\* a long position just moved to break-even: the tick returned MOVE_STOP
\* alone and the stored stop is entry_price x 1.001
C16_Witness ==
    /\ last_op = "update_trade"
    /\ trade # NoTrade /\ trade.side = "long"
    /\ trade.at_break_even /\ ~trade.trailing_active
    /\ result.action = "MULTIPLE" /\ Len(result.actions) = 1
    /\ result.actions[1].action = "MOVE_STOP"
    /\ result.actions[1].new_stop = break_even_stop_long(trade.entry_price)
    /\ trade.current_stop = break_even_stop_long(trade.entry_price)
    /\ trade.current_stop > trade.stop_loss

----------------------------------------------------------------------------
\* update_trade called for each price of a sequence in turn (lines 494-495,
\* without the break): the position after the last call
RECURSIVE run_ticks(_, _, _)
run_ticks(t, prices, i) ==
    IF i > Len(prices) THEN t
    ELSE run_ticks(update_trade(t, prices[i]).trade, prices, i + 1)

\* long position, entry 100, stop 98, trailing distance 0.012
ScenarioTrade == ProtectedTrade(HandBuilt("long", 98000, 101500, 102500))
ScenarioPrices == <<100000, 102000, 103000, 104000, 102000>>

(* C17: for a long position, after a non-exiting tick at a price p at or
   above the trailing trigger the stored stop is at least
   p x (1 - trailing_distance); once the trailing rule has acted no tick
   lowers the stored stop; and with entry 100, trailing distance 0.012 and
   prices 100, 102, 103, 104, 102 the stop ends at 104 x (1 - 0.012).       *)
C17_TrailingStopFollows ==
    /\ [][ \A k \in TickPermille :
             (trade # NoTrade /\ trade.side = "long" /\ UpdateTrade(k)) =>
               /\ ( /\ non_exiting(result')
                    /\ tick_price(k) >= trade.trailing_start )
                  => trade'.current_stop * BP
                       >= tick_price(k) * (BP - trade.trailing_distance)
               /\ trade.trailing_active
                  => trade'.current_stop >= trade.current_stop
         ]_vars
    /\ run_ticks(ScenarioTrade, ScenarioPrices, 1).current_stop * 1000
         = 104000 * 988
    /\ run_ticks(ScenarioTrade, ScenarioPrices, 1).trailing_active

\* the end of the scenario: the stop trailed to 102.752 under the high of
\* 104, and the tick at 102 left it there
C17_Witness ==
    /\ last_op = "update_trade"
    /\ trade = run_ticks(ScenarioTrade, ScenarioPrices, 1)
    /\ trade.highest_price = 104000 /\ trade.current_stop = 102752
    /\ trade.trailing_active
    /\ result.pnl_pct = 200

----------------------------------------------------------------------------
\* the stops a returned value tells the caller to move to
stops_moved_to(r) ==
    { r.actions[i].new_stop :
        i \in actions_of(r, "MOVE_STOP") \cup actions_of(r, "TRAIL_STOP") }

(* C18: whatever the stored stop, levels and flags of a position are, no tick
   assigns a stop lower than the stored one for a long or higher than the
   stored one for a short, by the break-even rule or by the trailing rule.  *)
C18_EveryAssignmentCompared ==
    [][ \A k \in TickPermille :
          (trade # NoTrade /\ UpdateTrade(k)) =>
            IF trade.side = "long"
            THEN /\ trade'.current_stop >= trade.current_stop
                 /\ \A x \in stops_moved_to(result') : x >= trade.current_stop
            ELSE /\ trade'.current_stop <= trade.current_stop
                 /\ \A x \in stops_moved_to(result') : x <= trade.current_stop
      ]_vars

----------------------------------------------------------------------------
\* what the claim compares after a tick: the stop and the flags
ladder_state(t) ==
    <<t.current_stop, t.tp1_hit, t.tp2_hit, t.at_break_even,
      t.trailing_active>>

(* C19: a position rebuilt from its saved fields in the middle of its ladder
   behaves as the original: for every next price, update_trade returns the
   same value and leaves the same stop and flags.                           *)
C19_RehydrateResumes ==
    [][ Rehydrate =>
          \A k \in TickPermille :
            LET original == update_trade(trade, tick_price(k))
                rebuilt == update_trade(trade', tick_price(k))
            IN  /\ rebuilt.result = original.result
                /\ ladder_state(rebuilt.trade) = ladder_state(original.trade)
      ]_vars

----------------------------------------------------------------------------
(* C20: no operation fails on a numeric edge case: with an entry price of 0
   or a stop distance of 0, calculate_protected_entry returns a position
   with defined numbers and update_trade returns one of its defined results,
   never an error.                                                          *)
C20_NoNumericFailure ==
    /\ last_op = "update_trade"
       => result.action \in {"none", "EXIT_ALL", "MULTIPLE", "HOLD"}
    /\ trade # NoTrade => trade.quantity >= 0

----------------------------------------------------------------------------
(* C21: a sizing request whose stop price equals the entry price is rejected
   by every sizer: it returns quantity 0 and derives no position.           *)
C21_ZeroStopDistanceRejected ==
    (sized.sizer # "none" /\ sized.stop_loss = sized.entry_price) =>
        /\ ~sized.accepted
        /\ sized.quantity = 0

(* C22: the value of the position a sizer returns (quantity x entry price)
   never exceeds equity x the instrument's allocation cap, and never exceeds
   the room left under the total-exposure limit.                            *)
C22_PositionValueWithinCaps ==
    (sized.sizer # "none" /\ sized.accepted) =>
        /\ sized.position_value <= sized.cap_value
        /\ sized.has_room => sized.position_value <= sized.room_value

----------------------------------------------------------------------------
(* C23: sizing against one account is serialized: at most one "read exposure,
   compute size, submit order" sequence is in progress across the bot
   threads, and the account's exposure after a thread's order is within the
   total-exposure limit that thread sized against.                          *)
C23_SizingSerialized ==
    /\ ~(sizing_race.hunter.pc = "submitting"
           /\ sizing_race.scalper.pc = "submitting")
    /\ \A th \in {sizing_race.hunter, sizing_race.scalper} :
           th.committed => th.exposure_after <= th.limit

----------------------------------------------------------------------------
(* C24: when the statements of two update_trade calls on one long position
   interleave, the stored stop still never decreases and each one-shot flag
   (TP1, TP2, break-even) still has its action emitted at most once.        *)
C24_AtomicPerPosition ==
    /\ [](/\ tick_race.emitted.tp1 <= 1
          /\ tick_race.emitted.tp2 <= 1
          /\ tick_race.emitted.break_even <= 1)
    /\ [][ (trade # NoTrade /\ trade' # NoTrade)
              => trade'.current_stop >= trade.current_stop ]_vars

----------------------------------------------------------------------------
(* C25: a cycle of the trading engine in which a data fetch exceeded its
   timeout is abandoned: when it ends, no order was submitted and the open
   positions and the trade ledger are as they were when the cycle began.    *)
C25_TimeoutAbandonsCycle ==
    LET c == engine["engine_v2"]
    IN  (c.pc = "idle" /\ c.cycles > 0 /\ c.timed_out # {}) =>
            /\ c.order = ""
            /\ c.held = c.at_start.held
            /\ c.closed_trades = c.at_start.closed_trades

\* the step named step is among the first n steps of the cycle c
ran_within(c, step, n) == \E j \in 1..n : c.steps[j] = step

(* C26: in every trading cycle of either bot the exit check runs before any
   new entry is considered, and every cycle that has ended ran the exit
   check, blocked cycles included.                                          *)
C26_ExitsCheckedFirstEveryCycle ==
    \A bot \in Bots :
        LET c == engine[bot]
        IN  /\ \A i \in 1..Len(c.steps) :
                   c.steps[i] \in {"analyze", "scan", "execute"}
                       => ran_within(c, "check_exits", i - 1)
            /\ (c.pc = "idle" /\ c.cycles > 0)
                   => ran_within(c, "check_exits", Len(c.steps))

----------------------------------------------------------------------------
(* C27: when update_trailing_stop is called with a current price at or below
   the trailing stop stored for the symbol it returns SELL_ALL, and the
   stored trailing stop never moves down.                                   *)
C27_TrailingStopSells ==
    (swing.returned # "" /\ swing.was_stored) =>
        /\ swing.current_price <= swing.old_stop
               => swing.returned = "SELL_ALL"
        /\ swing.trailing_stop >= swing.old_stop

----------------------------------------------------------------------------
(* C28: when submit_order fails in execute_trade the bookkeeping is as before
   the attempt: leveraged_positions, daily_leveraged_trades, the stored
   position data and trades_today are unchanged.                            *)
C28_FailedOrderLeavesBookkeeping ==
    [][ (/\ \E signal \in CycleSignals, snap \in CycleSnapshots :
                TradingCycle(signal, snap, FALSE)
         /\ order'.can_trade)
            => UNCHANGED <<leveraged_positions, daily_leveraged_trades,
                           positions, bot_trades_today>> ]_vars

\* the leveraged positions the bot holds
leveraged_held ==
    { s \in TradedSymbols : /\ positions[s].open /\ positions[s].held
                            /\ positions[s].leverage > 10 }

(* C29: leveraged_positions stays between 0 and max_leveraged_positions and
   equals the number of leveraged positions the bot currently holds.        *)
C29_LeveragedPositionsCount ==
    /\ 0 <= leveraged_positions
    /\ leveraged_positions <= max_leveraged_positions
    /\ leveraged_positions = Cardinality(leveraged_held)

(* C30: the bot's daily reset restores the day's budget of leveraged trades:
   after _daily_reset, daily_leveraged_trades is 0.                         *)
C30_DailyResetRestoresBudget ==
    [][ BotDailyReset => daily_leveraged_trades' = 0 ]_vars

====
